---- MODULE Spec2Model ----
(***************************************************************************)
(* ColorCamp: Color Values (BaseColor / Hex / RGB / HSL), Color Groups     *)
(* (Palette / Scale / Map), the typed Bucket store and the Camp container  *)
(* with its JSON persistence.                                              *)
(*                                                                         *)
(* Numbers.  Python floats are modelled by exact rationals <<n, d>> in     *)
(* lowest terms (d > 0).  Strings that the code inspects character by      *)
(* character (hex codes) are sequences of character codes; all other       *)
(* strings are TLA+ strings.  None is NoAlpha where the other values are   *)
(* numbers or tuples, and NoneStr where they are strings.                  *)
(***************************************************************************)
EXTENDS Integers, Sequences, FiniteSets, TLC

(***************************************************************************)
(* Rational arithmetic                                                     *)
(***************************************************************************)
Abs(x) == IF x < 0 THEN -x ELSE x

RECURSIVE Gcd(_, _)
Gcd(a, b) == IF b = 0 THEN a ELSE Gcd(b, a % b)

\* the rational n/d in lowest terms with a positive denominator
Rat(n, d) ==
    LET s == IF d < 0 THEN -1 ELSE 1
        g == Gcd(Abs(n), Abs(d))
    IN  <<(s * n) \div g, (s * d) \div g>>

RInt(k) == <<k, 1>>
RAdd(x, y) == Rat(x[1] * y[2] + y[1] * x[2], x[2] * y[2])
RSub(x, y) == Rat(x[1] * y[2] - y[1] * x[2], x[2] * y[2])
RMul(x, y) == Rat(x[1] * y[1], x[2] * y[2])
RDiv(x, y) == Rat(x[1] * y[2], x[2] * y[1])
RLe(x, y) == x[1] * y[2] <= y[1] * x[2]
RLt(x, y) == x[1] * y[2] < y[1] * x[2]
RFloor(x) == x[1] \div x[2]

\* Python int(x) on a float: truncation toward zero
PyInt(x) == IF x[1] >= 0 THEN x[1] \div x[2] ELSE -((-x[1]) \div x[2])

\* Python round(x): round half to even
PyRound(x) ==
    LET f == RFloor(x)
        r == x[1] - f * x[2]
    IN  IF 2 * r < x[2] THEN f
        ELSE IF 2 * r > x[2] THEN f + 1
        ELSE IF f % 2 = 0 THEN f ELSE f + 1

Zero == RInt(0)
One == RInt(1)

(***************************************************************************)
(* Characters of hex codes.  0..15 are the characters 0-9, A-F; 16..21 are *)
(* the lower-case a-f; HASH is '#'; NonHexChar is a character outside      *)
(* [#0-9A-Fa-f] (such as 'G').                                             *)
(***************************************************************************)
HASH == 22
NonHexChar == 23
Chars == 0..23
IsHexDigit(c) == c \in 0..21
DigitValue(c) == IF c >= 16 THEN c - 6 ELSE c
\* str.upper() on one character
UpperChar(c) == IF c \in 16..21 THEN c - 6 ELSE c
Upper(s) == [i \in 1..Len(s) |-> UpperChar(s[i])]

\* "{:02X}".format(b) for 0 <= b <= 255
Hex02X(b) == <<b \div 16, b % 16>>
\* "{:X}".format(b) for 0 <= b <= 4095: no padding
HexX(b) ==
    IF b < 16 THEN <<b>>
    ELSE IF b < 256 THEN <<b \div 16, b % 16>>
    ELSE <<b \div 256, (b \div 16) % 16, b % 16>>

(***************************************************************************)
(* Optional values.  None is the empty tuple where the value is a number   *)
(* or a tuple (alpha), and the string "<None>" where it is a string        *)
(* (name, description, metadata): "<None>" matches no name pattern.        *)
(***************************************************************************)
NoAlpha == <<>>
NoneStr == "<None>"
EmptyMeta == "{}"

(***************************************************************************)
(* Validators (common/validators.py)                                       *)
(***************************************************************************)
\* names of the model that do not match ^[a-zA-Z0-9_]+$
BadNames == {"", "bad name"}
\* a description of more than 255 characters
LongDescription == "<256 characters>"

UnitIntervalValidator(lo, hi, x) == RLe(lo, x) /\ RLe(x, hi)
FractionIntervalValidator(x) == UnitIntervalValidator(Zero, One, x)
HueIntervalValidator(x) == UnitIntervalValidator(Zero, RInt(360), x)
RGB256IntervalValidator(x) == UnitIntervalValidator(Zero, RInt(255), x)
NameValidator(n) == n = NoneStr \/ n \notin BadNames
DescriptionValidator(d) == d # LongDescription
HexStringValidator(s) ==
    /\ Len(s) \in {4, 5, 7, 9}
    /\ s[1] = HASH
    /\ \A i \in 2..Len(s) : IsHexDigit(s[i])

(***************************************************************************)
(* Results of calls: a value or a raised exception                         *)
(***************************************************************************)
Ok(v) == [ok |-> TRUE, exc |-> "", val |-> v]
Raise(e) == [ok |-> FALSE, exc |-> e, val |-> <<>>]
\* the results of a list of calls made in order: the first exception, or
\* the list of the values
Collect(rs) ==
    IF \E i \in 1..Len(rs) : ~rs[i].ok
    THEN Raise(rs[CHOOSE i \in 1..Len(rs) :
                     ~rs[i].ok /\ \A j \in 1..(i - 1) : rs[j].ok].exc)
    ELSE Ok([i \in 1..Len(rs) |-> rs[i].val])

(***************************************************************************)
(* Conversion functions (conversions.py)                                   *)
(***************************************************************************)
Prefix(s, n) == SubSeq(s, 1, IF n < Len(s) THEN n ELSE Len(s))

\* a faulty hex_to_rgb: a shorthand digit d is read as the byte d0, not dd
hex_to_rgb_shifted(s) ==
    LET h == SubSeq(s, 2, Len(s))
        bytes == IF Len(h) > 4
                 THEN [i \in 1..(Len(h) \div 2) |->
                          16 * DigitValue(h[2 * i - 1]) + DigitValue(h[2 * i])]
                 ELSE [i \in 1..Len(h) |-> 16 * DigitValue(h[i])]
    IN  [i \in 1..Len(bytes) |->
            IF i = 4 THEN Rat(bytes[4], 255) ELSE RInt(bytes[i])]

\* hex_to_rgb on a string the validator accepts: a tuple of the integer
\* channels and, for the 4- and 8-digit forms, the alpha byte / 255
hex_to_rgb(s) ==
    LET h == SubSeq(s, 2, Len(s))
        bytes == IF Len(h) > 4
                 THEN [i \in 1..(Len(h) \div 2) |->
                          16 * DigitValue(h[2 * i - 1]) + DigitValue(h[2 * i])]
                 ELSE [i \in 1..Len(h) |-> 17 * DigitValue(h[i])]
    IN  [i \in 1..Len(bytes) |->
            IF i = 4 THEN Rat(bytes[4], 255) ELSE RInt(bytes[i])]

\* rgb_to_hex on a tuple of three byte channels and an optional alpha:
\* "#{:02X}{:02X}{:02X}" and, for a fourth element, f"{int(alpha*255):02X}"
rgb_to_hex(rgb) ==
    <<HASH>> \o Hex02X(rgb[1][1]) \o Hex02X(rgb[2][1]) \o Hex02X(rgb[3][1])
             \o (IF Len(rgb) = 4
                 THEN Hex02X(PyInt(RMul(rgb[4], RInt(255))))
                 ELSE <<>>)

\* a faulty variant: the leading '#' is optional
hex_to_rgb_lenient(hex_str) ==
    IF HexStringValidator(hex_str) THEN Ok(hex_to_rgb(hex_str))
    ELSE IF HexStringValidator(<<HASH>> \o hex_str)
    THEN Ok(hex_to_rgb(<<HASH>> \o hex_str))
    ELSE Raise("ValueError")
\* hex_to_rgb(hex_str) from its first line: HexStringValidator().validate
\* raises ValueError on a string that does not match
hex_to_rgb_validated(hex_str) ==
    IF HexStringValidator(hex_str) THEN Ok(hex_to_rgb(hex_str))
    ELSE Raise("ValueError")

RMax(x, y) == IF RLe(x, y) THEN y ELSE x
RMin(x, y) == IF RLe(x, y) THEN x ELSE y
\* x % 1.0 for -1 <= x
Mod1(x) == RSub(x, RInt(RFloor(x)))

\* colorsys.rgb_to_hls
colorsys_rgb_to_hls(r, g, b) ==
    LET maxc == RMax(r, RMax(g, b))
        minc == RMin(r, RMin(g, b))
        sumc == RAdd(maxc, minc)
        rangec == RSub(maxc, minc)
        l == RDiv(sumc, RInt(2))
        s == IF RLe(l, Rat(1, 2)) THEN RDiv(rangec, sumc)
             ELSE RDiv(rangec, RSub(RInt(2), sumc))
        rc == RDiv(RSub(maxc, r), rangec)
        gc == RDiv(RSub(maxc, g), rangec)
        bc == RDiv(RSub(maxc, b), rangec)
        h == IF r = maxc THEN RSub(bc, gc)
             ELSE IF g = maxc THEN RSub(RAdd(RInt(2), rc), bc)
             ELSE RSub(RAdd(RInt(4), gc), rc)
    IN  IF minc = maxc THEN <<Zero, l, Zero>>
        ELSE <<Mod1(RDiv(h, RInt(6))), l, s>>

colorsys_v(m1, m2, hue0) ==
    LET hue == Mod1(hue0)
    IN  IF RLt(hue, Rat(1, 6))
        THEN RAdd(m1, RMul(RMul(RSub(m2, m1), hue), RInt(6)))
        ELSE IF RLt(hue, Rat(1, 2)) THEN m2
        ELSE IF RLt(hue, Rat(2, 3))
        THEN RAdd(m1, RMul(RMul(RSub(m2, m1), RSub(Rat(2, 3), hue)), RInt(6)))
        ELSE m1

\* colorsys.hls_to_rgb
colorsys_hls_to_rgb(h, l, s) ==
    LET m2 == IF RLe(l, Rat(1, 2)) THEN RMul(l, RAdd(One, s))
              ELSE RSub(RAdd(l, s), RMul(l, s))
        m1 == RSub(RMul(RInt(2), l), m2)
    IN  IF s = Zero THEN <<l, l, l>>
        ELSE <<colorsys_v(m1, m2, RAdd(h, Rat(1, 3))),
               colorsys_v(m1, m2, h),
               colorsys_v(m1, m2, RSub(h, Rat(1, 3)))>>

\* settings.max_precision: decimal places kept by rgb_to_hsl
max_precision == 6
RECURSIVE Pow10(_)
Pow10(n) == IF n = 0 THEN 1 ELSE 10 * Pow10(n - 1)
\* round(x, ndigits) for x >= 0
PyRoundTo(x, ndigits) ==
    LET q == RFloor(x)
        r == x[1] - q * x[2]
        p == Pow10(ndigits)
    IN  Rat(q * p + PyRound(<<r * p, x[2]>>), p)

\* rgb_to_hsl on fractional channels and an optional alpha
rgb_to_hsl(rgb) ==
    LET hls == colorsys_rgb_to_hls(rgb[1], rgb[2], rgb[3])
        hue == PyRoundTo(RMul(hls[1], RInt(360)), max_precision)
        lightness == PyRoundTo(hls[2], max_precision)
        saturation == PyRoundTo(hls[3], max_precision)
    IN  <<hue, saturation, lightness>> \o (IF Len(rgb) = 4 THEN <<rgb[4]>> ELSE <<>>)
(***************************************************************************)
(* Color Values.  A Color Value is the record of its instance attributes:  *)
(*   kind         the class: "BaseColor", "Hex", "RGB" or "HSL"            *)
(*   frgb         _fractional_rgb, three rationals                         *)
(*   alpha        _alpha, NoAlpha or a rational                            *)
(*   name, description, metadata      _name, _description, _metadata       *)
(*   hex          _hex of a Hex (upper-case characters), else <<>>         *)
(*   tup          _rgb of an RGB, _hsl of an HSL, else <<>>                *)
(***************************************************************************)
ColorSpaces == {"BaseColor", "Hex", "RGB", "HSL"}
\* BaseColor._subclasses, filled by __init_subclass__
ColorSubclasses == {"Hex", "RGB", "HSL"}

\* a tuple's value followed by alpha when alpha is set
WithAlpha(t, alpha) == IF alpha = NoAlpha THEN t ELSE t \o <<alpha>>

\* ColorInfo setters on a fresh object, in the order BaseColor.__init__ and
\* ColorInfo.__init__ run them: name, description, metadata (None -> {})
InfoInit(obj, name, description, metadata) ==
    IF ~NameValidator(name) THEN Raise("ValueError")
    ELSE IF ~DescriptionValidator(description) THEN Raise("ValueError")
    ELSE Ok([obj EXCEPT !.name = name,
                        !.description = description,
                        !.metadata = IF metadata = NoneStr THEN EmptyMeta
                                     ELSE metadata])

\* BaseColor.__init__ on an object whose class and native fields are set
BaseColorInit(kind, hex, tup, frgb, alpha, name, description, metadata) ==
    IF \E i \in 1..3 : ~FractionIntervalValidator(frgb[i])
    THEN Raise("NumericIntervalError")
    ELSE IF alpha # NoAlpha /\ ~FractionIntervalValidator(alpha)
    THEN Raise("NumericIntervalError")
    ELSE InfoInit([kind |-> kind, frgb |-> frgb, alpha |-> alpha,
                   name |-> NoneStr, description |-> NoneStr,
                   metadata |-> EmptyMeta, hex |-> hex, tup |-> tup,
                   cached |-> <<>>],
                  name, description, metadata)

\* BaseColor(red, green, blue, alpha, name, description, metadata)
NewBaseColor(frgb, alpha, name, description, metadata) ==
    BaseColorInit("BaseColor", <<>>, <<>>, frgb, alpha, name, description, metadata)

\* Hex.__adjust_alpha: f"{int(alpha*255):X}" (or alpha*15) appended unpadded;
\* a negative number formats with a '-', which is no hex digit
AlphaDigits(alpha, scale) ==
    LET k == PyInt(RMul(alpha, RInt(scale)))
    IN  IF k < 0 THEN <<NonHexChar>> ELSE HexX(k)

adjust_alpha(hex_str, alpha) ==
    IF alpha = NoAlpha THEN hex_str
    ELSE IF Len(hex_str) > 6 THEN Prefix(hex_str, 7) \o AlphaDigits(alpha, 255)
    ELSE Prefix(hex_str, 4) \o AlphaDigits(alpha, 15)

\* Hex(hex_str, alpha, name, description, metadata)
NewHex(hex_str, alpha0, name, description, metadata) ==
    IF ~HexStringValidator(hex_str) THEN Raise("ValueError")
    ELSE
      LET rgb == hex_to_rgb(hex_str)
          frgb == [i \in 1..3 |-> RDiv(rgb[i], RInt(255))]
          alpha == IF Len(rgb) = 4 /\ alpha0 = NoAlpha THEN rgb[4] ELSE alpha0
          adjusted == adjust_alpha(hex_str, alpha)
      IN  IF ~HexStringValidator(adjusted) THEN Raise("ValueError")
          ELSE BaseColorInit("Hex", Upper(adjusted), <<>>, frgb, alpha,
                             name, description, metadata)

\* RGB(rgb, alpha, name, description, metadata): rgb has 3 or 4 elements
NewRGB(rgb, alpha0, name, description, metadata) ==
    LET frgb == [i \in 1..3 |-> RDiv(rgb[i], RInt(255))]
        alpha == IF Len(rgb) = 4 /\ alpha0 = NoAlpha THEN rgb[4] ELSE alpha0
    IN  IF \E i \in 1..3 : ~RGB256IntervalValidator(rgb[i])
        THEN Raise("NumericIntervalError")
        ELSE BaseColorInit("RGB", <<>>, SubSeq(rgb, 1, 3), frgb, alpha,
                           name, description, metadata)

\* HSL(hsl, alpha, name, description, metadata): hsl has 3 or 4 elements
NewHSL(hsl, alpha0, name, description, metadata) ==
    LET frgb == colorsys_hls_to_rgb(RDiv(hsl[1], RInt(360)), hsl[3], hsl[2])
        alpha == IF Len(hsl) = 4 /\ alpha0 = NoAlpha THEN hsl[4] ELSE alpha0
    IN  IF \/ ~HueIntervalValidator(hsl[1])
           \/ ~FractionIntervalValidator(hsl[2])
           \/ ~FractionIntervalValidator(hsl[3])
        THEN Raise("NumericIntervalError")
        ELSE BaseColorInit("HSL", <<>>, SubSeq(hsl, 1, 3), frgb, alpha,
                           name, description, metadata)

\* a Python value held by a field: a str (t = "str", s) or a tuple of
\* numbers (t = "tuple", v)
StrValue(s) == [t |-> "str", s |-> s, v |-> <<>>]
TupleValue(v) == [t |-> "tuple", s |-> <<>>, v |-> v]

\* the entries of the instance dictionary that shadow a cached_property:
\* cached is a sequence of <<field, value>> pairs
IsCached(c, field) == \E i \in 1..Len(c.cached) : c.cached[i][1] = field
Cached(c, field) ==
    c.cached[CHOOSE i \in 1..Len(c.cached) : c.cached[i][1] = field][2]

\* the properties of a Color Value.  hex, rgb and hsl are properties of the
\* class they are native to and cached properties of BaseColor elsewhere.
fractional_rgb(c) == WithAlpha(c.frgb, c.alpha)
rgb(c) ==
    IF c.kind = "RGB" THEN WithAlpha(c.tup, c.alpha)
    ELSE IF IsCached(c, "rgb") THEN Cached(c, "rgb").v
    ELSE WithAlpha([i \in 1..3 |-> RInt(PyRound(RMul(c.frgb[i], RInt(255))))],
                   c.alpha)
hsl(c) ==
    IF c.kind = "HSL" THEN WithAlpha(c.tup, c.alpha)
    ELSE IF IsCached(c, "hsl") THEN Cached(c, "hsl").v
    ELSE rgb_to_hsl(fractional_rgb(c))
hex(c) ==
    IF c.kind = "Hex" THEN c.hex
    ELSE IF IsCached(c, "hex") THEN Cached(c, "hex").s
    ELSE rgb_to_hex(rgb(c))
info(c) == [name |-> c.name, description |-> c.description, metadata |-> c.metadata]

\* native: the value of the object's own representation
native(c) ==
    CASE c.kind = "Hex" -> StrValue(hex(c))
      [] c.kind = "RGB" -> TupleValue(rgb(c))
      [] c.kind = "HSL" -> TupleValue(hsl(c))
      [] OTHER -> TupleValue(fractional_rgb(c))

\* BaseColor.__eq__ between two Color Values
ColorEq(a, b) == native(a) = native(b)
(***************************************************************************)
(* Python dictionaries: a sequence of <<key, value>> pairs with distinct   *)
(* keys, in insertion order.                                               *)
(***************************************************************************)
DictKeys(d) == [i \in 1..Len(d) |-> d[i][1]]
DictValues(d) == [i \in 1..Len(d) |-> d[i][2]]
DictHas(d, k) == \E i \in 1..Len(d) : d[i][1] = k
DictGet(d, k) == d[CHOOSE i \in 1..Len(d) : d[i][1] = k][2]
\* d[k] = v: an existing key keeps its place
DictSet(d, k, v) ==
    IF DictHas(d, k)
    THEN [i \in 1..Len(d) |-> IF d[i][1] = k THEN <<k, v>> ELSE d[i]]
    ELSE Append(d, <<k, v>>)
DictDel(d, k) == SelectSeq(d, LAMBDA p : p[1] # k)
\* dict(pairs): a later pair with the same key replaces the value
RECURSIVE DictOf(_)
DictOf(pairs) ==
    IF pairs = <<>> THEN <<>>
    ELSE LET n == Len(pairs)
         IN  DictSet(DictOf(SubSeq(pairs, 1, n - 1)), pairs[n][1], pairs[n][2])

(***************************************************************************)
(* to_color_space, to_dict and from_dict of a Color Value                  *)
(***************************************************************************)
\* a faulty variant: the default is another color space
default_color_space_rgb == "RGB"
\* settings.default_color_space
default_color_space == "Hex"

\* the subclass constructor called with the value of its representation
NewSubclass(kind, value, alpha, name, description, metadata) ==
    CASE kind = "Hex" -> NewHex(value, alpha, name, description, metadata)
      [] kind = "RGB" -> NewRGB(value, alpha, name, description, metadata)
      [] kind = "HSL" -> NewHSL(value, alpha, name, description, metadata)

\* getattr(self, color_space.lower())
Representation(c, kind) ==
    CASE kind = "Hex" -> hex(c)
      [] kind = "RGB" -> rgb(c)
      [] kind = "HSL" -> hsl(c)

\* new_color._fractional_rgb = self.fractional_rgb[:3] on the result of the
\* subclass constructor
set_fractional_rgb(new_color, frgb) ==
    IF new_color.ok THEN Ok([new_color.val EXCEPT !.frgb = frgb]) ELSE new_color

\* BaseColor.to_color_space.  The test "color_space is self.__class__.__name__"
\* is an equality here: class names and the literals passed are interned.
to_color_space(c, color_space) ==
    IF color_space = c.kind THEN Ok(c)
    ELSE IF color_space \in ColorSubclasses
    THEN set_fractional_rgb(
             NewSubclass(color_space, Representation(c, color_space),
                         c.alpha, c.name, c.description, c.metadata),
             c.frgb)
    ELSE IF color_space = "BaseColor"
    THEN NewBaseColor(c.frgb, c.alpha, c.name, c.description, c.metadata)
    ELSE Raise("ValueError")

\* BaseColor.to_dict: a dictionary as a record; "value" is the native value
color_to_dict(c) ==
    [type |-> c.kind, name |-> c.name, description |-> c.description,
     metadata |-> c.metadata, value |-> native(c)]

\* from_dict: new_color = cls(*value, **color_dict) for cls BaseColor, and
\* cls._subclasses[color_type](value, **color_dict) otherwise
new_color_from_dict(cls, color_dict) ==
    IF color_dict.type = "BaseColor"
    THEN IF cls # "BaseColor" THEN Raise("TypeError")
         ELSE NewBaseColor(SubSeq(color_dict.value.v, 1, 3),
                           IF Len(color_dict.value.v) = 4
                           THEN color_dict.value.v[4] ELSE NoAlpha,
                           color_dict.name, color_dict.description,
                           color_dict.metadata)
    ELSE IF color_dict.type \notin ColorSubclasses THEN Raise("KeyError")
    ELSE NewSubclass(color_dict.type,
                     IF color_dict.type = "Hex" THEN color_dict.value.s
                     ELSE color_dict.value.v,
                     NoAlpha, color_dict.name, color_dict.description,
                     color_dict.metadata)

\* from_dict: return new_color.to_color_space(color_space)
converted(new_color, color_space) ==
    IF ~new_color.ok THEN new_color
    ELSE to_color_space(new_color.val, color_space)

\* cls.from_dict(color_dict, color_space) for cls a color class; color_space
\* NoneStr stands for None.
color_from_dict(cls, color_dict, color_space0) ==
    IF "value" \notin DOMAIN color_dict \/ "type" \notin DOMAIN color_dict
    THEN Raise("KeyError")
    ELSE converted(new_color_from_dict(cls, color_dict),
                   IF color_space0 = NoneStr THEN cls ELSE color_space0)
\* the tuple or str that a Color Value of a subclass is, as handed on by
\* self.__class__(self, ...): a Hex is its hex code, an RGB or HSL its
\* channels followed by its alpha
self_value(c) == IF c.kind = "Hex" THEN c.hex ELSE WithAlpha(c.tup, c.alpha)

\* BaseColor.change_alpha(alpha)
change_alpha(c, alpha) ==
    IF c.kind = "BaseColor"
    THEN NewBaseColor(c.frgb, alpha, c.name, c.description, c.metadata)
    ELSE NewSubclass(c.kind, self_value(c), alpha, c.name, c.description,
                     c.metadata)

\* math.isclose(a, b, abs_tol=1/n) for a and b in [0, 1] and n <= 10^9, where
\* the relative tolerance 1e-9 * max(a, b) is no more than the absolute one:
\* |a - b| <= 1/n
isclose(a, b, n) ==
    LET d == RSub(RMax(a, b), RMin(a, b))
    IN  d[1] = 0 \/ n <= d[2] \div d[1]
\* zip_longest(x, y, fillvalue=1) at position i
Filled(x, i) == IF i <= Len(x) THEN x[i] ELSE One
\* BaseColor.equivalence(color) for color a Color Value: the tolerance is
\* 1/(255*2) for a Hex or RGB and 1e-9 otherwise
equivalence(c, other) ==
    \A i \in 1..(IF Len(fractional_rgb(c)) > Len(fractional_rgb(other))
                 THEN Len(fractional_rgb(c)) ELSE Len(fractional_rgb(other))) :
        isclose(Filled(fractional_rgb(c), i), Filled(fractional_rgb(other), i),
                IF c.kind \in {"Hex", "RGB"} THEN 510 ELSE 1000000000)

\* self + color with the alpha of self carried over to the sum
add_with_alpha(c, other) ==
    IF other.kind \notin {"BaseColor", "Hex", "RGB", "HSL"} THEN Raise("TypeError")
    ELSE converted(NewBaseColor(<<RDiv(RAdd(c.frgb[1], other.frgb[1]), RInt(2)),
                                  RDiv(RAdd(c.frgb[2], other.frgb[2]), RInt(2)),
                                  RDiv(RAdd(c.frgb[3], other.frgb[3]), RInt(2))>>,
                                c.alpha, NoneStr, NoneStr, NoneStr),
                   c.kind)
\* BaseColor.__add__(color): sum(x) / 2 over zip(self.fractional_rgb[:3],
\* color.fractional_rgb[:3]), then BaseColor(red, green, blue) cast to the
\* class of self
add(c, other) ==
    IF other.kind \notin {"BaseColor", "Hex", "RGB", "HSL"} THEN Raise("TypeError")
    ELSE converted(NewBaseColor(<<RDiv(RAdd(c.frgb[1], other.frgb[1]), RInt(2)),
                                  RDiv(RAdd(c.frgb[2], other.frgb[2]), RInt(2)),
                                  RDiv(RAdd(c.frgb[3], other.frgb[3]), RInt(2))>>,
                                NoAlpha, NoneStr, NoneStr, NoneStr),
                   c.kind)

(***************************************************************************)
(* Color Groups.  A Palette or Scale is a tuple of colors with its info    *)
(* (a Palette also has the cursor of next(), a Scale its stops); a Map is  *)
(* a dictionary from keys to colors with its info.  A key is a record:     *)
(* t = "str" or "int", v the key's text.                                   *)
(***************************************************************************)
GroupKinds == {"Palette", "Scale", "Map"}
isinstance_BaseColor(x) == x.kind \in ColorSpaces
\* an object that is no Color Value and no Color Group (a plain str)
NonColor == [kind |-> "str"]

StrKey(text) == [t |-> "str", v |-> text]
IntKey(text) == [t |-> "int", v |-> text]
\* json.dump writes every key of an object as a string
JsonKey(k) == StrKey(k.v)

\* Palette(colors, name, description, metadata)
NewPalette(colors, name, description, metadata) ==
    IF \E i \in 1..Len(colors) : ~isinstance_BaseColor(colors[i])
    THEN Raise("TypeError")
    ELSE InfoInit([kind |-> "Palette", name |-> NoneStr, description |-> NoneStr,
                   metadata |-> EmptyMeta, colors |-> colors, current_index |-> 0],
                  name, description, metadata)

\* sorted(values) == list(values)
IsSorted(values) == \A i \in 1..(Len(values) - 1) : RLe(values[i], values[i + 1])

\* the stops setter called with None: [i/(n-1) for i in range(n-1)] + [1]
DefaultStops(n_colors) ==
    [i \in 1..(IF n_colors > 1 THEN n_colors - 1 ELSE 0) |-> Rat(i - 1, n_colors - 1)]
        \o <<One>>

NoStops == << <<0, 0>> >>

\* Scale(colors, stops, name, description, metadata); the interval validator
\* of the setter sits in a generator that is never consumed
NewScale(colors, stops, name, description, metadata) ==
    IF \E i \in 1..Len(colors) : ~isinstance_BaseColor(colors[i])
    THEN Raise("TypeError")
    ELSE LET r == InfoInit([kind |-> "Scale", name |-> NoneStr,
                            description |-> NoneStr, metadata |-> EmptyMeta,
                            colors |-> colors, stops |-> <<>>],
                           name, description, metadata)
         IN  IF ~r.ok THEN r
             ELSE IF stops = NoStops
             THEN Ok([r.val EXCEPT !.stops = DefaultStops(Len(colors))])
             ELSE IF Len(stops) # Len(colors) \/ ~IsSorted(stops)
             THEN Raise("ValueError")
             ELSE Ok([r.val EXCEPT !.stops = stops])

\* Map(color_map, name, description, metadata)
NewMap(color_map, name, description, metadata) ==
    IF \E i \in 1..Len(color_map) : ~isinstance_BaseColor(color_map[i][2])
    THEN Raise("TypeError")
    ELSE InfoInit([kind |-> "Map", name |-> NoneStr, description |-> NoneStr,
                   metadata |-> EmptyMeta, color_map |-> color_map],
                  name, description, metadata)

\* the colors property of a group
colors_of(g) == IF g.kind = "Map" THEN DictValues(g.color_map) ELSE g.colors

\* tuple.__eq__ and dict.__eq__ over members compared with BaseColor.__eq__
TupleEq(a, b) ==
    Len(a) = Len(b) /\ \A i \in 1..Len(a) : ColorEq(a[i], b[i])
DictEq(a, b) ==
    /\ Len(a) = Len(b)
    /\ \A i \in 1..Len(a) :
          DictHas(b, a[i][1]) /\ ColorEq(a[i][2], DictGet(b, a[i][1]))

\* == between two objects of a camp
ObjectEq(a, b) ==
    IF isinstance_BaseColor(a) /\ isinstance_BaseColor(b) THEN ColorEq(a, b)
    ELSE IF a.kind \in {"Palette", "Scale"} /\ b.kind \in {"Palette", "Scale"}
    THEN TupleEq(a.colors, b.colors)
    ELSE IF a.kind = "Map" /\ b.kind = "Map" THEN DictEq(a.color_map, b.color_map)
    ELSE FALSE

\* to_dict of a group
group_to_dict(g) ==
    CASE g.kind = "Palette" ->
            [type |-> "Palette", name |-> g.name, description |-> g.description,
             metadata |-> g.metadata,
             colors |-> [i \in 1..Len(g.colors) |-> color_to_dict(g.colors[i])]]
      [] g.kind = "Scale" ->
            [type |-> "Scale", name |-> g.name, description |-> g.description,
             metadata |-> g.metadata,
             colors |-> [i \in 1..Len(g.colors) |-> color_to_dict(g.colors[i])],
             stops |-> g.stops]
      [] g.kind = "Map" ->
            [type |-> "Map", name |-> g.name, description |-> g.description,
             metadata |-> g.metadata,
             color_map |-> [i \in 1..Len(g.color_map) |->
                               <<g.color_map[i][1], color_to_dict(g.color_map[i][2])>>]]

\* [BaseColor.from_dict(color, color_space) for color in dicts]: the colors,
\* or the first exception raised
ColorsFromDicts(dicts, color_space) ==
    Collect([i \in 1..Len(dicts) |->
                color_from_dict("BaseColor", dicts[i], color_space)])

\* from_dict of a group: the constructor call on the colors built
group_of_colors(cls, d, cs) ==
    IF ~cs.ok THEN cs
    ELSE CASE cls = "Palette" ->
                NewPalette(cs.val, d.name, d.description, d.metadata)
           [] cls = "Scale" ->
                NewScale(cs.val,
                         IF "stops" \in DOMAIN d THEN d.stops ELSE NoStops,
                         d.name, d.description, d.metadata)
           [] cls = "Map" ->
                NewMap(DictOf([i \in 1..Len(d.color_map) |->
                                  <<d.color_map[i][1], cs.val[i]>>]),
                       d.name, d.description, d.metadata)

\* Palette.from_dict, Scale.from_dict and Map.from_dict; color_space NoneStr
\* stands for None
group_from_dict(cls, d, color_space0) ==
    IF (IF cls = "Map" THEN "color_map" ELSE "colors") \notin DOMAIN d
    THEN Raise("KeyError")
    ELSE group_of_colors(cls, d,
             ColorsFromDicts(IF cls = "Map" THEN DictValues(d.color_map)
                             ELSE d.colors,
                             IF color_space0 = NoneStr THEN default_color_space
                             ELSE color_space0))
\* MetaColor.change_info(**kwargs) of a Color Value or a Color Group; kwargs
\* is a dictionary from argument names to values
accepted_values == {"name", "description", "metadata"}
to_dict(obj) ==
    IF obj.kind \in GroupKinds THEN group_to_dict(obj) ELSE color_to_dict(obj)
from_dict(cls, d) ==
    IF cls \in GroupKinds THEN group_from_dict(cls, d, NoneStr)
    ELSE color_from_dict(cls, d, NoneStr)
\* {**d, **new_info}
Updated(d, new_info) ==
    [k \in DOMAIN d |->
        IF DictHas(new_info, k) THEN DictGet(new_info, k) ELSE d[k]]
change_info(obj, kwargs) ==
    IF \A i \in 1..Len(kwargs) : kwargs[i][1] \notin accepted_values
    THEN Raise("ValueError")
    ELSE IF \E i \in 1..Len(kwargs) : kwargs[i][1] \notin accepted_values
    THEN Raise("ValueError")
    ELSE from_dict(obj.kind, Updated(to_dict(obj), kwargs))

(***************************************************************************)
(* Methods of the Color Groups                                             *)
(***************************************************************************)
\* a faulty variant of next: the cursor is advanced without the modulo
palette_next_unbounded(g) ==
    IF Len(g.colors) = 0 THEN Raise("ZeroDivisionError")
    ELSE IF g.current_index >= Len(g.colors) THEN Raise("IndexError")
    ELSE Ok([ret |-> g.colors[g.current_index + 1],
             self |-> [g EXCEPT !.current_index = @ + 1]])
\* Palette.next(): the color returned and the palette left behind
palette_next(g) ==
    IF Len(g.colors) = 0 THEN Raise("ZeroDivisionError")
    ELSE Ok([ret |-> g.colors[g.current_index + 1],
             self |-> [g EXCEPT !.current_index = (@ + 1) % Len(g.colors)]])

\* scale.stops = values (the setter of Scale.stops); values NoStops stands
\* for None
set_stops(g, values) ==
    IF values = NoStops
    THEN Ok([g EXCEPT !.stops = DefaultStops(Len(g.colors))])
    ELSE IF Len(values) # Len(g.colors) \/ ~IsSorted(values)
    THEN Raise("ValueError")
    ELSE Ok([g EXCEPT !.stops = values])

\* map[key] = value (Map.__setitem__)
map_setitem(g, key, value) ==
    IF ~isinstance_BaseColor(value) THEN Raise("TypeError")
    ELSE Ok([g EXCEPT !.color_map = DictSet(@, key, value)])
\* map.update({key: value}): dict.update, which Map does not override and
\* which does not call __setitem__
map_update(g, key, value) ==
    Ok([g EXCEPT !.color_map = DictSet(@, key, value)])
\* map.setdefault(key, default): dict.setdefault, not overridden either; the
\* value returned and the map left behind
map_setdefault(g, key, default) ==
    IF DictHas(g.color_map, key)
    THEN Ok([ret |-> DictGet(g.color_map, key), self |-> g])
    ELSE Ok([ret |-> default,
             self |-> [g EXCEPT !.color_map = DictSet(@, key, default)]])

\* the key that a color's name makes: None is a key too
NoneKey == [t |-> "NoneType", v |-> "None"]
NameKey(name) == IF name = NoneStr THEN NoneKey ELSE StrKey(name)
\* names=None of to_map
NoNames == <<[t |-> "NoneType", v |-> "names"]>>
\* zip(names, colors): as many pairs as the shorter of the two
Zip(names, colors) ==
    [i \in 1..(IF Len(names) < Len(colors) THEN Len(names) ELSE Len(colors)) |->
        <<names[i], colors[i]>>]
\* the names to_map uses: those given, or the names of the colors
map_names(colors, names) ==
    IF names = NoNames THEN [i \in 1..Len(colors) |-> NameKey(colors[i].name)]
    ELSE names
\* ColorGroup.__to_type("Map", names=...) on the names resolved
to_map_of(g, colors, names) ==
    IF Cardinality({names[i] : i \in 1..Len(names)}) # Len(colors)
    THEN Raise("ValueError")
    ELSE NewMap(DictOf(Zip(names, colors)), g.name, g.description, g.metadata)
\* group.to_map(names)
to_map(g, names) ==
    IF g.kind = "Map" THEN Ok(g)
    ELSE to_map_of(g, colors_of(g), map_names(colors_of(g), names))
\* group.to_scale(stops)
to_scale(g, stops) ==
    IF g.kind = "Scale" THEN Ok(g)
    ELSE NewScale(colors_of(g), stops, g.name, g.description, g.metadata)
\* group.to_palette()
to_palette(g) ==
    IF g.kind = "Palette" THEN Ok(g)
    ELSE NewPalette(colors_of(g), g.name, g.description, g.metadata)

\* colors[::-1]
Reversed(colors) == [i \in 1..Len(colors) |-> colors[Len(colors) + 1 - i]]
\* Palette.reverse() and Scale.reverse()
reverse(g) ==
    IF g.kind = "Palette"
    THEN NewPalette(Reversed(g.colors), g.name, g.description, g.metadata)
    ELSE NewScale(Reversed(g.colors), g.stops, g.name, g.description, g.metadata)

(***************************************************************************)
(* Bucket.  The state of a bucket is its instance dictionary: the entry    *)
(* "_bucket_type" holds the declared type, every other entry a stored      *)
(* object.  A class is the record [kind |-> "type", name |-> its name].    *)
(***************************************************************************)
Class(name) == [kind |-> "type", name |-> name]
\* isinstance(value, klass) for klass a class
isinstance(value, klass) ==
    IF klass.name = "BaseColor" THEN isinstance_BaseColor(value)
    ELSE value.kind = klass.name
\* Bucket(bucket_type)
NewBucket(bucket_type) == << <<"_bucket_type", bucket_type>> >>

\* the attributes every bucket has from its class
BucketClassAttrs == {"add", "remove", "to_dict", "names"}
\* hasattr(bucket, name)
bucket_hasattr(b, name) == DictHas(b, name) \/ name \in BucketClassAttrs
\* the object has an attribute "name" (a plain str has none)
has_name(item) == "name" \in DOMAIN item

\* a faulty variant of __setattr__: the type of the value is not tested
bucket_setattr_untyped(b, name, value) ==
    IF name = "_bucket_type" THEN Ok(DictSet(b, name, value))
    ELSE IF ~has_name(value) THEN Raise("AttributeError")
    ELSE IF value.name # name THEN Raise("AttributeError")
    ELSE Ok(DictSet(b, name, value))
\* Bucket.__setattr__(name, value): the new instance dictionary, or the
\* exception raised
bucket_setattr(b, name, value) ==
    IF name = "_bucket_type" THEN Ok(DictSet(b, name, value))
    ELSE IF ~DictHas(b, "_bucket_type") THEN Raise("AttributeError")
    ELSE IF DictGet(b, "_bucket_type").kind # "type" THEN Raise("TypeError")
    ELSE IF ~isinstance(value, DictGet(b, "_bucket_type")) THEN Raise("TypeError")
    ELSE IF value.name # name THEN Raise("AttributeError")
    ELSE IF name = "names" THEN Raise("AttributeError")
    ELSE Ok(DictSet(b, name, value))

\* a faulty variant of add: a name in use is overwritten
bucket_add_overwriting(b, item) ==
    IF ~has_name(item) THEN Raise("AttributeError")
    ELSE IF item.name = NoneStr THEN Raise("AttributeError")
    ELSE Ok(DictSet(b, item.name, item))
\* Bucket.add(item); an object stored under "add" shadows the method and is
\* not callable
bucket_add(b, item) ==
    IF DictHas(b, "add") THEN Raise("TypeError")
    ELSE IF ~has_name(item) THEN Raise("AttributeError")
    ELSE IF item.name = NoneStr THEN Raise("AttributeError")
    ELSE IF bucket_hasattr(b, item.name) THEN Raise("ValueError")
    ELSE bucket_setattr(b, item.name, item)

\* Bucket.remove(name); delattr of a name that only the class defines
\* raises AttributeError
bucket_remove(b, name) ==
    IF DictHas(b, "remove") THEN Raise("TypeError")
    ELSE IF ~bucket_hasattr(b, name) THEN Raise("KeyError")
    ELSE IF ~DictHas(b, name) THEN Raise("AttributeError")
    ELSE Ok(DictDel(b, name))

\* Bucket.to_dict(): a copy of the instance dictionary without "_bucket_type"
bucket_to_dict(b) ==
    IF DictHas(b, "to_dict") THEN Raise("TypeError")
    ELSE IF ~DictHas(b, "_bucket_type") THEN Raise("KeyError")
    ELSE Ok(DictDel(b, "_bucket_type"))
(***************************************************************************)
(* Camp.  A camp is its info and its four buckets.  An operation that can  *)
(* fail half way returns the state it leaves behind with the exception.    *)
(***************************************************************************)
Done(state) == [ok |-> TRUE, exc |-> "", val |-> state]
Fail(e, state) == [ok |-> FALSE, exc |-> e, val |-> state]

\* Camp(name, description, metadata)
NewCamp(name, description, metadata) ==
    InfoInit([kind |-> "Camp", name |-> NoneStr, description |-> NoneStr,
              metadata |-> EmptyMeta,
              colors |-> NewBucket(Class("BaseColor")),
              scales |-> NewBucket(Class("Scale")),
              palettes |-> NewBucket(Class("Palette")),
              maps |-> NewBucket(Class("Map"))],
             name, description, metadata)

\* Camp.__directory_map()
directory_map ==
    [colors |-> Class("BaseColor"), scales |-> Class("Scale"),
     palettes |-> Class("Palette"), maps |-> Class("Map")]
BucketKeys == DOMAIN directory_map

\* a faulty variant of map_directory: scales are sent to the palettes
map_directory_swapped ==
    [c \in {directory_map[k].name : k \in BucketKeys} |->
        IF c = "Scale" THEN "palettes"
        ELSE CHOOSE k \in BucketKeys : directory_map[k].name = c]
\* map_directory of add_objects: class name -> bucket key
map_directory ==
    [c \in {directory_map[k].name : k \in BucketKeys} |->
        CHOOSE k \in BucketKeys : directory_map[k].name = c]

\* the bucket key add_objects sends an object of this kind to
co_type(color_object) ==
    IF isinstance_BaseColor(color_object) THEN "BaseColor" ELSE color_object.kind

RECURSIVE add_objects(_, _, _)
\* a faulty variant of add_objects: exists_ok is ignored and every value
\* error is raised again
add_objects_strict(camp_, color_objects, exists_ok) ==
    IF color_objects = <<>> THEN Done(camp_)
    ELSE IF co_type(Head(color_objects)) \notin DOMAIN map_directory
    THEN Fail("KeyError", camp_)
    ELSE IF ~bucket_add(camp_[map_directory[co_type(Head(color_objects))]],
                        Head(color_objects)).ok
    THEN Fail(bucket_add(camp_[map_directory[co_type(Head(color_objects))]],
                         Head(color_objects)).exc, camp_)
    ELSE add_objects(
             [camp_ EXCEPT ![map_directory[co_type(Head(color_objects))]] =
                 bucket_add(@, Head(color_objects)).val],
             Tail(color_objects), exists_ok)
\* a faulty variant of add_objects: the items after the one that raised are
\* still added before the error is raised
add_objects_resuming(camp_, color_objects, exists_ok) ==
    IF color_objects = <<>> THEN Done(camp_)
    ELSE LET color_object == Head(color_objects)
             t == co_type(color_object)
         IN  IF t \notin DOMAIN map_directory
             THEN Fail("KeyError",
                       add_objects(camp_, Tail(color_objects), exists_ok).val)
             ELSE LET key == map_directory[t]
                      r == bucket_add(camp_[key], color_object)
                  IN  IF r.ok
                      THEN add_objects([camp_ EXCEPT ![key] = r.val],
                                       Tail(color_objects), exists_ok)
                      ELSE IF r.exc = "ValueError" /\ exists_ok
                      THEN add_objects(camp_, Tail(color_objects), exists_ok)
                      ELSE Fail(r.exc,
                                add_objects(camp_, Tail(color_objects),
                                            exists_ok).val)
\* Camp.add_objects(color_objects, exists_ok)
add_objects(camp_, color_objects, exists_ok) ==
    IF color_objects = <<>> THEN Done(camp_)
    ELSE LET color_object == Head(color_objects)
             t == co_type(color_object)
         IN  IF t \notin DOMAIN map_directory THEN Fail("KeyError", camp_)
             ELSE LET key == map_directory[t]
                      r == bucket_add(camp_[key], color_object)
                  IN  IF r.ok
                      THEN add_objects([camp_ EXCEPT ![key] = r.val],
                                       Tail(color_objects), exists_ok)
                      ELSE IF r.exc = "ValueError" /\ exists_ok
                      THEN add_objects(camp_, Tail(color_objects), exists_ok)
                      ELSE Fail(r.exc, camp_)

\* to_dict of a stored object
object_to_dict(o) ==
    IF isinstance_BaseColor(o) THEN color_to_dict(o) ELSE group_to_dict(o)

\* [o.to_dict() for o in d.values()] for d the result of bucket.to_dict()
values_to_dicts(d) ==
    IF ~d.ok THEN d
    ELSE Ok([i \in 1..Len(d.val) |-> object_to_dict(d.val[i][2])])
bucket_dicts(b) == values_to_dicts(bucket_to_dict(b))

\* the dictionary Camp.to_dict returns, from the four lists
camp_dict_of(camp_, lists) ==
    IF ~lists.ok THEN lists
    ELSE Ok([type |-> "Camp", name |-> camp_.name,
             description |-> camp_.description, metadata |-> camp_.metadata,
             colors |-> lists.val[1], palettes |-> lists.val[2],
             scales |-> lists.val[3], maps |-> lists.val[4]])

\* Camp.to_dict(): the lists are built in the order colors, palettes,
\* scales, maps
camp_to_dict(camp_) ==
    camp_dict_of(camp_,
        Collect(<<bucket_dicts(camp_.colors), bucket_dicts(camp_.palettes),
                  bucket_dicts(camp_.scales), bucket_dicts(camp_.maps)>>))

\* what a call returns or raises, without the state it leaves behind
Returned(r) == IF r.ok THEN Ok(r.val) ELSE Raise(r.exc)

\* from_dict: new_camp = cls(...); new_camp.add_objects(color_objects)
camp_of_objects(color_objects, new_camp) ==
    IF ~color_objects.ok THEN color_objects
    ELSE IF ~new_camp.ok THEN new_camp
    ELSE Returned(add_objects(new_camp.val, color_objects.val, FALSE))

\* the color_objects list of from_dict
objects_from_dict(camp_dict, color_space) ==
    Collect(
        [i \in 1..Len(camp_dict.colors) |->
            color_from_dict("BaseColor", camp_dict.colors[i], color_space)]
        \o [i \in 1..Len(camp_dict.palettes) |->
            group_from_dict("Palette", camp_dict.palettes[i], color_space)]
        \o [i \in 1..Len(camp_dict.scales) |->
            group_from_dict("Scale", camp_dict.scales[i], color_space)]
        \o [i \in 1..Len(camp_dict.maps) |->
            group_from_dict("Map", camp_dict.maps[i], color_space)])

\* Camp.from_dict(camp_dict, color_space); color_space NoneStr stands for None
camp_from_dict(camp_dict, color_space0) ==
    camp_of_objects(
        objects_from_dict(camp_dict,
                          IF color_space0 = NoneStr THEN default_color_space
                          ELSE color_space0),
        NewCamp(camp_dict.name, camp_dict.description, camp_dict.metadata))

\* d without the key, and without complaint when the key is missing
Without(d, key) == [k \in DOMAIN d \ {key} |-> d[k]]
\* color_dict after BaseColor.from_dict: color_dict.pop("value"), then
\* color_dict.pop("type"); a pop of a missing key raises KeyError
popped(color_dict) ==
    IF "value" \notin DOMAIN color_dict THEN color_dict
    ELSE Without(Without(color_dict, "value"), "type")
RECURSIVE dicts_popped(_, _)
\* the color dictionaries after [BaseColor.from_dict(color, color_space) for
\* color in dicts]: the comprehension ends at the first call that raises
dicts_popped(dicts, color_space) ==
    IF dicts = <<>> THEN <<>>
    ELSE IF color_from_dict("BaseColor", Head(dicts), color_space).ok
    THEN <<popped(Head(dicts))>> \o dicts_popped(Tail(dicts), color_space)
    ELSE <<popped(Head(dicts))>> \o Tail(dicts)
\* the dictionary of a group after Palette.from_dict, Scale.from_dict or
\* Map.from_dict
group_dict_after(cls, d, color_space) ==
    IF (IF cls = "Map" THEN "color_map" ELSE "colors") \notin DOMAIN d THEN d
    ELSE IF cls = "Map"
    THEN [d EXCEPT !.color_map =
             [i \in 1..Len(@) |->
                 <<@[i][1], dicts_popped(DictValues(@), color_space)[i]>>]]
    ELSE [d EXCEPT !.colors = dicts_popped(@, color_space)]
\* the calls of from_dict that Camp.from_dict makes, in their order (colors,
\* palettes, scales, maps): the class and the dictionary of each
from_dict_calls(camp_dict) ==
    [i \in 1..Len(camp_dict.colors) |-> <<"BaseColor", camp_dict.colors[i]>>]
        \o [i \in 1..Len(camp_dict.palettes) |-> <<"Palette", camp_dict.palettes[i]>>]
        \o [i \in 1..Len(camp_dict.scales) |-> <<"Scale", camp_dict.scales[i]>>]
        \o [i \in 1..Len(camp_dict.maps) |-> <<"Map", camp_dict.maps[i]>>]
\* one of these calls: whether it returns, and its dictionary after it
call_returns(call, color_space) ==
    IF call[1] = "BaseColor"
    THEN color_from_dict("BaseColor", call[2], color_space).ok
    ELSE group_from_dict(call[1], call[2], color_space).ok
call_dict_after(call, color_space) ==
    IF call[1] = "BaseColor" THEN popped(call[2])
    ELSE group_dict_after(call[1], call[2], color_space)
RECURSIVE calls_done(_, _)
\* the dictionaries of the calls after Camp.from_dict, which ends at the
\* first call that raises
calls_done(from_dicts, color_space) ==
    IF from_dicts = <<>> THEN <<>>
    ELSE IF call_returns(Head(from_dicts), color_space)
    THEN <<call_dict_after(Head(from_dicts), color_space)>>
             \o calls_done(Tail(from_dicts), color_space)
    ELSE <<call_dict_after(Head(from_dicts), color_space)>>
             \o [i \in 1..(Len(from_dicts) - 1) |-> from_dicts[i + 1][2]]
\* camp_dict with the dictionaries of its four lists replaced by dicts
with_lists(camp_dict, dicts) ==
    [camp_dict EXCEPT
        !.colors = SubSeq(dicts, 1, Len(@)),
        !.palettes = SubSeq(dicts, Len(camp_dict.colors) + 1,
                            Len(camp_dict.colors) + Len(@)),
        !.scales = SubSeq(dicts, Len(camp_dict.colors) + Len(camp_dict.palettes) + 1,
                          Len(camp_dict.colors) + Len(camp_dict.palettes) + Len(@)),
        !.maps = SubSeq(dicts, Len(dicts) - Len(@) + 1, Len(dicts))]
\* camp_dict after Camp.from_dict
camp_dict_after(camp_dict, color_space) ==
    with_lists(camp_dict, calls_done(from_dict_calls(camp_dict), color_space))
\* cls.from_dict(d) with no color space, for cls a color class, a group
\* class or Camp: what it returns or raises, and d after the call
class_from_dict(cls, d) ==
    IF cls = "Camp" THEN camp_from_dict(d, NoneStr) ELSE from_dict(cls, d)
dict_after(cls, d) ==
    IF cls = "Camp" THEN camp_dict_after(d, default_color_space)
    ELSE IF cls \in GroupKinds THEN group_dict_after(cls, d, default_color_space)
    ELSE popped(d)
(***************************************************************************)
(* JSON files.  The disk is a dictionary from file path to content; the    *)
(* content of a file is the sequence of JSON documents in it: one, or none *)
(* for a file that was opened for writing and never written.  In a JSON    *)
(* document a tuple is an array (the same sequence here) and every key of  *)
(* an object is a string.                                                  *)
(***************************************************************************)
\* json.dump of a Camp dictionary
json_dump(camp_dict) ==
    [camp_dict EXCEPT !.maps =
        [i \in 1..Len(@) |->
            [@[i] EXCEPT !.color_map =
                [j \in 1..Len(@) |-> <<JsonKey(@[j][1]), @[j][2]>>]]]]

\* json.load of a Camp document: a repeated key keeps its last value
json_load(document) ==
    [document EXCEPT !.maps =
        [i \in 1..Len(@) |-> [@[i] EXCEPT !.color_map = DictOf(@)]]]

\* Path(directory) / f"{name}.json"
JsonPath(directory, name) == <<directory, name>>

\* dump_json: with open(file_path, "w") as fio: json.dump(self.to_dict(), fio)
\* the file is opened, and so emptied, before to_dict() is evaluated
write_json(disk_, file_path, d) ==
    IF ~d.ok THEN Fail(d.exc, DictSet(disk_, file_path, <<>>))
    ELSE Done(DictSet(disk_, file_path, <<json_dump(d.val)>>))

\* a faulty variant of dump_json: an existing file is always written over
dump_json_overwriting(camp_, disk_, file_path, overwrite) ==
    write_json(disk_, file_path, camp_to_dict(camp_))
\* ColorSerializer.dump_json(file_path, overwrite) of a camp
dump_json(camp_, disk_, file_path, overwrite) ==
    IF DictHas(disk_, file_path) /\ ~overwrite THEN Fail("FileExistsError", disk_)
    ELSE write_json(disk_, file_path, camp_to_dict(camp_))

\* Camp.save(directory, overwrite)
save(camp_, disk_, directory, overwrite) ==
    dump_json(camp_, disk_, JsonPath(directory, camp_.name), overwrite)

\* Camp.load_json(file_path, color_space)
load_json(disk_, file_path, color_space) ==
    IF ~DictHas(disk_, file_path) THEN Raise("FileNotFoundError")
    ELSE IF DictGet(disk_, file_path) = <<>> THEN Raise("JSONDecodeError")
    ELSE camp_from_dict(json_load(DictGet(disk_, file_path)[1]), color_space)

\* Camp.load(name, directory, color_space) with a directory given: the
\* color space is resolved and then not handed to load_json
load(disk_, name, directory, color_space) ==
    load_json(disk_, JsonPath(directory, name), NoneStr)
(***************************************************************************)
(* The objects and inputs of the model                                     *)
(***************************************************************************)
\* "#FF15AA", "#fff" and "#000"
HexString1 == <<HASH, 15, 15, 1, 5, 10, 10>>
HexString2 == <<HASH, 21, 21, 21>>
HexString3 == <<HASH, 0, 0, 0>>

HexA == NewHex(HexString1, NoAlpha, "a", NoneStr, NoneStr).val
RgbA == NewRGB(<<RInt(255), RInt(21), RInt(170)>>, NoAlpha, "a", NoneStr, NoneStr).val
HexNone == NewHex(HexString2, NoAlpha, NoneStr, NoneStr, NoneStr).val
HexT == NewHex(HexString3, NoAlpha, "_bucket_type", NoneStr, NoneStr).val
HslB == NewHSL(<<RInt(120), Rat(1, 2), Rat(1, 2)>>, NoAlpha, "b", NoneStr, NoneStr).val
BaseB == NewBaseColor(<<One, Zero, Rat(1, 2)>>, NoAlpha, "b", NoneStr, NoneStr).val
PaletteA == NewPalette(<<HexA, HexNone>>, "a", NoneStr, NoneStr).val
ScaleB == NewScale(<<RgbA, HslB, BaseB>>, NoStops, "b", NoneStr, NoneStr).val
MapA == NewMap(<< <<StrKey("k"), HexA>> >>, "a", NoneStr, NoneStr).val
MapB == NewMap(<< <<IntKey("1"), HexA>> >>, "a", NoneStr, NoneStr).val

\* the objects handed to Bucket.add and, one at a time, to add_objects
CampObjects == {HexA, RgbA, HexNone, PaletteA, ScaleB, MapA, NonColor}
BucketObjects == CampObjects \cup {HexT}
\* the objects of the longer lists handed to add_objects
ListObjects == {HexA, RgbA, HexNone}
\* the longest list handed to add_objects
MaxItems == 2
ItemLists ==
    {<<o>> : o \in CampObjects}
        \cup UNION {[1..n -> ListObjects] : n \in 2..MaxItems}
\* the lists handed to add_objects of a camp that is saved and loaded
DiskLists == {<<o>> : o \in {HexA, RgbA, PaletteA, ScaleB, MapA, MapB}}
\* the values of a direct assignment, and the lists handed to add_objects
\* where direct assignments are made
AssignObjects == {HexA, PaletteA, HexT, NonColor}
AssignLists == {<<o>> : o \in {HexA, RgbA, HexNone, PaletteA}}

\* the names handed to Bucket.remove and to a direct assignment
Names == {"a", "b", "add", "_bucket_type"}
\* the buckets reached as camp.<key> for a direct Bucket call
BucketTargets == {"colors"}
\* the camp's name, the directory it is saved to and the names loaded
CampName == "T"
Directory == "dir"
LoadNames == {CampName, "U"}
\* the color_space arguments of load
ColorSpaceArgs == ColorSpaces \cup {NoneStr}
\* the Color Values constructed on their own
Colors == {HexA, RgbA, HslB, BaseB}

VARIABLES camp, disk, color, origin, group, calls, passed, last
vars == <<camp, disk, color, origin, group, calls, passed, last>>

\* last: the last call made: op its name, arg its arguments, exc the
\* exception it raised ("" for none) and ret the sequence of what it returned
Call(op, arg, exc, ret) == [op |-> op, arg |-> arg, exc |-> exc, ret |-> ret]

\* color: the Color Value at hand and origin: the Color Value it was made
\* from by conversions; group: the Color Group at hand and calls: the number
\* of calls of next() made on it (each <<>> before a construction)
\* passed: the dictionary at hand, which the caller passes to from_dict
\* Camp("T"), an empty directory, no Color Value, no Color Group and no
\* dictionary
Init ==
    /\ camp = NewCamp(CampName, NoneStr, NoneStr).val
    /\ disk = <<>>
    /\ color = <<>>
    /\ origin = <<>>
    /\ group = <<>>
    /\ calls = 0
    /\ passed = <<>>
    /\ last = Call("Camp", <<CampName>>, "", <<>>)

\* camp.<key>.add(item)
BucketAdd(key, item) ==
    LET r == bucket_add(camp[key], item)
    IN  /\ camp' = IF r.ok THEN [camp EXCEPT ![key] = r.val] ELSE camp
        /\ last' = Call("Bucket.add", <<key, item>>, r.exc, <<>>)
        /\ UNCHANGED <<disk, color, origin, group, calls, passed>>

\* camp.<key>.remove(name)
BucketRemove(key, name) ==
    LET r == bucket_remove(camp[key], name)
    IN  /\ camp' = IF r.ok THEN [camp EXCEPT ![key] = r.val] ELSE camp
        /\ last' = Call("Bucket.remove", <<key, name>>, r.exc, <<>>)
        /\ UNCHANGED <<disk, color, origin, group, calls, passed>>

\* camp.<key>.<name> = value
BucketSetAttr(key, name, value) ==
    LET r == bucket_setattr(camp[key], name, value)
    IN  /\ camp' = IF r.ok THEN [camp EXCEPT ![key] = r.val] ELSE camp
        /\ last' = Call("Bucket.__setattr__", <<key, name, value>>, r.exc, <<>>)
        /\ UNCHANGED <<disk, color, origin, group, calls, passed>>

\* camp.add_objects(color_objects, exists_ok)
AddObjects(color_objects, exists_ok) ==
    LET r == add_objects(camp, color_objects, exists_ok)
    IN  /\ camp' = r.val
        /\ last' = Call("Camp.add_objects", <<color_objects, exists_ok>>, r.exc, <<>>)
        /\ UNCHANGED <<disk, color, origin, group, calls, passed>>

\* camp.save(Directory, overwrite)
Save(overwrite) ==
    LET r == save(camp, disk, Directory, overwrite)
    IN  /\ disk' = r.val
        /\ last' = Call("Camp.save", <<Directory, overwrite>>, r.exc, <<>>)
        /\ UNCHANGED <<camp, color, origin, group, calls, passed>>

\* the record of a call that returns an object or raises
Returning(op, arg, r) == Call(op, arg, r.exc, IF r.ok THEN <<r.val>> ELSE <<>>)

\* Camp.load(name, Directory, color_space)
Load(name, color_space) ==
    /\ last' = Returning("Camp.load", <<name, Directory, color_space>>,
                         load(disk, name, Directory, color_space))
    /\ UNCHANGED <<camp, disk, color, origin, group, calls, passed>>

(***************************************************************************)
(* A Color Value on its own: construction and assignment to its fields     *)
(***************************************************************************)
\* the class's own representation field, if it has one
own_field(c) ==
    CASE c.kind = "Hex" -> "hex"
      [] c.kind = "RGB" -> "rgb"
      [] c.kind = "HSL" -> "hsl"
      [] OTHER -> "native"

\* the fields with a property setter: each setter raises once the private
\* attribute exists, and __init__ sets all of them
SetterFields(c) ==
    {"name", "description", "metadata", "alpha", "fractional_rgb", own_field(c)}
\* the fields that are a functools.cached_property of the object's class
CachedFields(c) == {"hex", "rgb", "hsl"} \ {own_field(c)}

\* color.<field> = value on a constructed Color Value
color_setattr(c, field, value) ==
    IF field \in SetterFields(c) THEN Raise("AttributeError")
    ELSE Ok([c EXCEPT !.cached = DictSet(@, field, value)])

\* the values read back from the eight fields
Fields(c) ==
    [name |-> c.name, description |-> c.description, metadata |-> c.metadata,
     alpha |-> c.alpha, fractional_rgb |-> fractional_rgb(c),
     hex |-> hex(c), rgb |-> rgb(c), hsl |-> hsl(c)]

FieldNames == {"name", "description", "metadata", "alpha", "fractional_rgb",
               "hex", "rgb", "hsl"}
\* the values assigned to a field
FieldValues(field) ==
    CASE field \in {"name", "description"} -> {"z"}
      [] field = "metadata" -> {EmptyMeta}
      [] field = "alpha" -> {Rat(1, 2)}
      [] field = "fractional_rgb" -> {<<Zero, Zero, Zero>>}
      [] field = "hex" -> {StrValue(HexString2), StrValue(HexString3)}
      [] field \in {"rgb", "hsl"} ->
            {TupleValue(<<Zero, Zero, Zero>>), TupleValue(<<One, One, One>>)}

\* a Color Value is constructed
ColorNew(c) ==
    /\ color' = <<c>>
    /\ origin' = <<c>>
    /\ last' = Call("Color", <<c.kind>>, "", <<>>)
    /\ UNCHANGED <<camp, disk, group, calls, passed>>

\* color.<field> = value
ColorSetAttr(field, value) ==
    /\ color # <<>>
    /\ LET r == color_setattr(color[1], field, value)
       IN  /\ color' = IF r.ok THEN <<r.val>> ELSE color
           /\ last' = Call("Color.__setattr__", <<field, value>>, r.exc, <<>>)
    /\ UNCHANGED <<camp, disk, origin, group, calls, passed>>

\* the Color Values that are converted: "#F00", "#FF000080", "#808080",
\* RGB (255, 255, 0) with alpha 0, HSL (0, 1, 0.5) with alpha 1/32,
\* HSL (240, 1, 0.5) and BaseColor (1, 0, 0.5)
HexRed == NewHex(<<HASH, 15, 0, 0>>, NoAlpha, "a", "d", NoneStr).val
HexRedHalf == NewHex(<<HASH, 15, 15, 0, 0, 0, 0, 8, 0>>, NoAlpha, "a", NoneStr, NoneStr).val
HexGrey == NewHex(<<HASH, 8, 0, 8, 0, 8, 0>>, NoAlpha, NoneStr, NoneStr, NoneStr).val
RgbYellow == NewRGB(<<RInt(255), RInt(255), RInt(0)>>, Zero, "b", NoneStr, NoneStr).val
HslRed == NewHSL(<<RInt(0), One, Rat(1, 2)>>, Rat(1, 32), "b", NoneStr, NoneStr).val
HslBlue == NewHSL(<<RInt(240), One, Rat(1, 2)>>, NoAlpha, "b", "d", NoneStr).val
ConvColors == {HexRed, HexRedHalf, HexGrey, RgbYellow, HslRed, HslBlue, BaseB}
\* the alphas handed to change_alpha
Alphas == {Rat(-1, 2), Zero, Rat(1, 32), Rat(1, 2), One, Rat(3, 2)}
\* the characters of the hex codes constructed: '1', 'F' and 'a'
HexDigits == {1, 15, 16}
\* the Hex values without alpha of three and of six digits over HexDigits,
\* and "#FF15AA"
HexCodes ==
    {<<HASH>> \o d : d \in [1..3 -> HexDigits] \cup [1..6 -> HexDigits]}
        \cup {HexString1}
HexColors == {NewHex(h, NoAlpha, "a", NoneStr, NoneStr).val : h \in HexCodes}

\* color.change_alpha(alpha)
ChangeAlpha(alpha) ==
    /\ color # <<>>
    /\ last' = Returning("change_alpha", <<alpha>>, change_alpha(color[1], alpha))
    /\ UNCHANGED <<camp, disk, color, origin, group, calls, passed>>

\* color = color.to_color_space(color_space)
ToColorSpace(color_space) ==
    /\ color # <<>>
    /\ LET r == to_color_space(color[1], color_space)
       IN  /\ color' = IF r.ok THEN <<r.val>> ELSE color
           /\ last' = Call("to_color_space", <<color_space>>, r.exc, <<>>)
    /\ UNCHANGED <<camp, disk, origin, group, calls, passed>>

\* cls.from_dict(color.to_dict(), color_space)
ColorFromDict(cls, color_space) ==
    /\ color # <<>>
    /\ last' = Returning("from_dict", <<cls, color_space>>,
                         color_from_dict(cls, color_to_dict(color[1]), color_space))
    /\ UNCHANGED <<camp, disk, color, origin, group, calls, passed>>

\* the Color Values that are compared: "#FF0080", BaseColor (1, 0, 0.501),
\* and the RGB, HSL and BaseColor values of the tuple (1, 1, 1)
HexPink == NewHex(<<HASH, 15, 15, 0, 0, 8, 0>>, NoAlpha, "a", NoneStr, NoneStr).val
BaseNear == NewBaseColor(<<One, Zero, Rat(501, 1000)>>, NoAlpha, NoneStr, NoneStr, NoneStr).val
RgbOne == NewRGB(<<One, One, One>>, NoAlpha, "a", NoneStr, NoneStr).val
HslOne == NewHSL(<<One, One, One>>, NoAlpha, "b", NoneStr, NoneStr).val
BaseOne == NewBaseColor(<<One, One, One>>, NoAlpha, NoneStr, "d", NoneStr).val
EquivColors ==
    {HexRed, HexRedHalf, HexPink, RgbYellow, RgbOne, HslOne, HslRed, BaseB,
     BaseNear, BaseOne}

\* color.equivalence(other)
Equivalence(other) ==
    /\ color # <<>>
    /\ last' = Call("equivalence", <<other>>, "", <<equivalence(color[1], other)>>)
    /\ UNCHANGED <<camp, disk, color, origin, group, calls, passed>>

\* the Color Values that are added: "#F00", "#FF000080", RGB (255, 255, 0)
\* with alpha 0, RGB (255, 0, 0) with alpha 1/2, RGB (0, 0, 255), HSL
\* (0, 1, 0.5) with alpha 1/32, HSL (240, 1, 0.5), HSL (1, 1, 1), BaseColor
\* (1, 0, 0.5), (1, 1, 1) and (0, 1, 0) with alpha 1/2
RgbRedHalf == NewRGB(<<RInt(255), RInt(0), RInt(0)>>, Rat(1, 2), "a", "d", NoneStr).val
RgbBlue == NewRGB(<<RInt(0), RInt(0), RInt(255)>>, NoAlpha, NoneStr, NoneStr, NoneStr).val
BaseGreenHalf == NewBaseColor(<<Zero, One, Zero>>, Rat(1, 2), "b", NoneStr, NoneStr).val
AddColors ==
    {HexRed, HexRedHalf, RgbYellow, RgbRedHalf, RgbBlue, HslRed, HslBlue,
     HslOne, BaseB, BaseOne, BaseGreenHalf}

\* color + other
Add(other) ==
    /\ color # <<>>
    /\ last' = Returning("__add__", <<other>>, add(color[1], other))
    /\ UNCHANGED <<camp, disk, color, origin, group, calls, passed>>

\* the objects whose dictionaries are passed to from_dict: Color Values of
\* every class, a Palette, a Palette without colors, a Scale and a Map
PaletteNone == NewPalette(<<>>, "e", NoneStr, NoneStr).val
DictObjects ==
    {HexRed, RgbYellow, HslBlue, BaseB, PaletteA, PaletteNone, ScaleB, MapA}
\* the lists handed to add_objects of a camp whose dictionary is passed
DictLists == {<<HexA, PaletteA>>, <<MapA>>}

\* passed = obj.to_dict()
ToDict(obj) ==
    /\ passed' = <<[cls |-> obj.kind, dict |-> to_dict(obj)]>>
    /\ last' = Call("to_dict", <<obj>>, "", <<>>)
    /\ UNCHANGED <<camp, disk, color, origin, group, calls>>

\* passed = camp.to_dict()
CampToDict ==
    \E r \in {camp_to_dict(camp)} :
        /\ passed' = IF r.ok THEN <<[cls |-> "Camp", dict |-> r.val]>> ELSE passed
        /\ last' = Call("Camp.to_dict", <<>>, r.exc, <<>>)
        /\ UNCHANGED <<camp, disk, color, origin, group, calls>>

\* cls.from_dict(passed), for cls the class whose to_dict made the dictionary
FromDict ==
    /\ passed # <<>>
    /\ \E r \in {class_from_dict(passed[1].cls, passed[1].dict)} :
           last' = Returning("cls.from_dict", <<passed[1].cls, passed[1].dict>>, r)
    /\ passed' = <<[passed[1] EXCEPT !.dict = dict_after(passed[1].cls, @)]>>
    /\ UNCHANGED <<camp, disk, color, origin, group, calls>>

\* the tuples handed to rgb_to_hex: three bytes and an optional alpha
ByteValues == {0, 10, 255}
TupleAlphas ==
    {Zero, Rat(1, 255), Rat(1, 3), Rat(127, 255), Rat(1, 2), Rat(254, 255), One}
RgbTuples ==
    {<<RInt(t[1]), RInt(t[2]), RInt(t[3])>> : t \in [1..3 -> ByteValues]}
        \cup {<<RInt(t[1]), RInt(t[2]), RInt(t[3]), a>> :
                 t \in [1..3 -> ByteValues], a \in TupleAlphas}
\* the strings handed to hex_to_rgb: every string of at most MaxShort
\* characters among '#', '1', 'F', 'a' and a character that is no hex digit,
\* and for 4 to 9 digits the string of the digits F, a, 1, ... without '#',
\* with '#', and with '#' and its last digit replaced by the other character
MaxShort == 4
ShortStrings == UNION {[1..n -> {HASH, 1, 15, 16, NonHexChar}] : n \in 0..MaxShort}
Digits(n) == [i \in 1..n |-> <<15, 16, 1>>[((i - 1) % 3) + 1]]
LongStrings ==
    UNION {{Digits(n), <<HASH>> \o Digits(n),
            <<HASH>> \o Digits(n - 1) \o <<NonHexChar>>} : n \in 4..9}
HexStrings == ShortStrings \cup LongStrings

\* rgb_to_hex(rgb_tuple)
RgbToHex(rgb_tuple) ==
    /\ last' = Call("rgb_to_hex", <<rgb_tuple>>, "", <<rgb_to_hex(rgb_tuple)>>)
    /\ UNCHANGED <<camp, disk, color, origin, group, calls, passed>>

\* hex_to_rgb(hex_str)
HexToRgb(hex_str) ==
    /\ last' = Returning("hex_to_rgb", <<hex_str>>, hex_to_rgb_validated(hex_str))
    /\ UNCHANGED <<camp, disk, color, origin, group, calls, passed>>

\* the Color Values whose info is changed; "#FF0000" with alpha 1/2 is one
HexHalf == NewHex(<<HASH, 15, 15, 0, 0, 0, 0>>, Rat(1, 2), "a", "d", NoneStr).val
InfoColors == {HexRed, HexRedHalf, HexHalf, RgbYellow, HslRed, HslBlue, BaseB}
\* the keyword arguments handed to change_info
InfoArgs ==
    {<<>>,
     <<<<"name", "n">>>>,
     <<<<"name", NoneStr>>>>,
     <<<<"name", "bad name">>>>,
     <<<<"description", "e">>>>,
     <<<<"metadata", "{k}">>>>,
     <<<<"name", "n">>, <<"description", "e">>, <<"metadata", "{k}">>>>,
     <<<<"name", "n">>, <<"alpha", "1">>>>}

\* color.change_info(**kwargs)
ColorChangeInfo(kwargs) ==
    /\ color # <<>>
    /\ last' = Returning("change_info", <<kwargs>>, change_info(color[1], kwargs))
    /\ UNCHANGED <<camp, disk, color, origin, group, calls, passed>>

(***************************************************************************)
(* A Color Group on its own: construction and the calls of its methods     *)
(***************************************************************************)
\* the members handed to the constructors of the groups
GroupColors == {HexA, RgbA, HslB, NonColor}
\* the most members of a group constructed
MaxMembers == 3
MemberLists == UNION {[1..n -> GroupColors] : n \in 0..MaxMembers}
\* the members handed to Scale
ScaleLists == UNION {[1..n -> {HexA, HslB, NonColor}] : n \in 0..MaxMembers}
\* the stops handed to Scale, to the stops setter and to to_scale
StopValues == {Rat(-1, 2), Zero, One}
StopLists == {NoStops} \cup UNION {[1..n -> StopValues] : n \in 1..MaxMembers}
\* the keys of the Maps and the names handed to to_map
MapKeys == {StrKey("a"), StrKey("b"), IntKey("1")}
\* the most entries of a color_map handed to Map
MaxEntries == 2
MapInputs ==
    {DictOf(pairs) :
        pairs \in UNION {[1..n -> MapKeys \X GroupColors] : n \in 0..MaxEntries}}
NameLists == {NoNames} \cup UNION {[1..n -> MapKeys] : n \in 0..MaxMembers}
\* the name and the description the groups are constructed with
GroupName == "g"
GroupDescription == "d"
\* the most calls of next() made on a palette
MaxCalls == 4

\* the group of a run is constructed before anything else is done
Fresh == group = <<>> /\ last.op = "Camp"

\* group = Palette(colors, name, description)
PaletteNew(colors) ==
    /\ Fresh
    /\ LET r == NewPalette(colors, GroupName, GroupDescription, NoneStr)
       IN  /\ group' = IF r.ok THEN <<r.val>> ELSE group
           /\ last' = Call("Palette", <<colors>>, r.exc, <<>>)
    /\ UNCHANGED <<camp, disk, color, origin, calls, passed>>

\* group = Scale(colors, stops, name, description)
ScaleNew(colors, stops) ==
    /\ Fresh
    /\ LET r == NewScale(colors, stops, GroupName, GroupDescription, NoneStr)
       IN  /\ group' = IF r.ok THEN <<r.val>> ELSE group
           /\ last' = Call("Scale", <<colors, stops>>, r.exc, <<>>)
    /\ UNCHANGED <<camp, disk, color, origin, calls, passed>>

\* group = Map(color_map, name, description)
MapNew(color_map) ==
    /\ Fresh
    /\ LET r == NewMap(color_map, GroupName, GroupDescription, NoneStr)
       IN  /\ group' = IF r.ok THEN <<r.val>> ELSE group
           /\ last' = Call("Map", <<color_map>>, r.exc, <<>>)
    /\ UNCHANGED <<camp, disk, color, origin, calls, passed>>

\* group.next() on a palette
PaletteNext ==
    /\ group # <<>> /\ group[1].kind = "Palette" /\ calls < MaxCalls
    /\ LET r == palette_next(group[1])
       IN  /\ group' = IF r.ok THEN <<r.val.self>> ELSE group
           /\ last' = Call("Palette.next", <<>>, r.exc,
                           IF r.ok THEN <<r.val.ret>> ELSE <<>>)
    /\ calls' = calls + 1
    /\ UNCHANGED <<camp, disk, color, origin, passed>>

\* group.stops = values on a scale
ScaleSetStops(values) ==
    /\ group # <<>> /\ group[1].kind = "Scale"
    /\ LET r == set_stops(group[1], values)
       IN  /\ group' = IF r.ok THEN <<r.val>> ELSE group
           /\ last' = Call("Scale.stops", <<values>>, r.exc, <<>>)
    /\ UNCHANGED <<camp, disk, color, origin, calls, passed>>

\* group[key] = value on a map
MapSetItem(key, value) ==
    /\ group # <<>> /\ group[1].kind = "Map"
    /\ LET r == map_setitem(group[1], key, value)
       IN  /\ group' = IF r.ok THEN <<r.val>> ELSE group
           /\ last' = Call("Map.__setitem__", <<key, value>>, r.exc, <<>>)
    /\ UNCHANGED <<camp, disk, color, origin, calls, passed>>

\* group.update({key: value}) on a map
MapUpdate(key, value) ==
    /\ group # <<>> /\ group[1].kind = "Map"
    /\ LET r == map_update(group[1], key, value)
       IN  /\ group' = IF r.ok THEN <<r.val>> ELSE group
           /\ last' = Call("Map.update", <<key, value>>, r.exc, <<>>)
    /\ UNCHANGED <<camp, disk, color, origin, calls, passed>>

\* group.setdefault(key, default) on a map
MapSetDefault(key, default) ==
    /\ group # <<>> /\ group[1].kind = "Map"
    /\ LET r == map_setdefault(group[1], key, default)
       IN  /\ group' = IF r.ok THEN <<r.val.self>> ELSE group
           /\ last' = Call("Map.setdefault", <<key, default>>, r.exc,
                           IF r.ok THEN <<r.val.ret>> ELSE <<>>)
    /\ UNCHANGED <<camp, disk, color, origin, calls, passed>>

\* group.to_map(names)
ToMap(names) ==
    /\ group # <<>>
    /\ last' = Returning("ColorGroup.to_map", <<names>>, to_map(group[1], names))
    /\ UNCHANGED <<camp, disk, color, origin, group, calls, passed>>

\* group.to_scale(stops)
ToScale(stops) ==
    /\ group # <<>>
    /\ last' = Returning("ColorGroup.to_scale", <<stops>>, to_scale(group[1], stops))
    /\ UNCHANGED <<camp, disk, color, origin, group, calls, passed>>

\* group.to_palette()
ToPalette ==
    /\ group # <<>>
    /\ last' = Returning("ColorGroup.to_palette", <<>>, to_palette(group[1]))
    /\ UNCHANGED <<camp, disk, color, origin, group, calls, passed>>

\* group.change_info(**kwargs)
GroupChangeInfo(kwargs) ==
    /\ group # <<>>
    /\ last' = Returning("ColorGroup.change_info", <<kwargs>>,
                         change_info(group[1], kwargs))
    /\ UNCHANGED <<camp, disk, color, origin, group, calls, passed>>

\* group.reverse()
Reverse ==
    /\ group # <<>>
    /\ last' = Returning("reverse", <<>>, reverse(group[1]))
    /\ UNCHANGED <<camp, disk, color, origin, group, calls, passed>>

\* the dictionary d without its entry "stops"
WithoutStops(d) == [k \in DOMAIN d \ {"stops"} |-> d[k]]
\* Scale.from_dict(d) for d the dictionary of the scale, whole or without
\* its stops
ScaleFromDict(with_stops) ==
    /\ group # <<>> /\ group[1].kind = "Scale"
    /\ last' = Returning("Scale.from_dict", <<with_stops>>,
                         group_from_dict("Scale",
                             IF with_stops THEN group_to_dict(group[1])
                             ELSE WithoutStops(group_to_dict(group[1])),
                             NoneStr))
    /\ UNCHANGED <<camp, disk, color, origin, group, calls, passed>>

(***************************************************************************)
(* Specifications                                                          *)
(***************************************************************************)
\* the calls of the public interface of Bucket and of Camp.add_objects
Next ==
    \/ \E key \in BucketTargets, item \in BucketObjects : BucketAdd(key, item)
    \/ \E key \in BucketTargets, name \in Names : BucketRemove(key, name)
    \/ \E color_objects \in ItemLists, exists_ok \in BOOLEAN :
          AddObjects(color_objects, exists_ok)
Spec == Init /\ [][Next]_vars

\* a camp is filled, saved and loaded
NextDisk ==
    \/ \E color_objects \in DiskLists : AddObjects(color_objects, FALSE)
    \/ \E overwrite \in BOOLEAN : Save(overwrite)
    \/ \E name \in LoadNames, color_space \in ColorSpaceArgs : Load(name, color_space)
SpecDisk == Init /\ [][NextDisk]_vars

\* the calls of Spec and direct assignment to an attribute of a bucket
NextAssign ==
    \/ \E key \in BucketTargets, item \in BucketObjects : BucketAdd(key, item)
    \/ \E key \in BucketTargets, name \in Names : BucketRemove(key, name)
    \/ \E color_objects \in AssignLists, exists_ok \in BOOLEAN :
          AddObjects(color_objects, exists_ok)
    \/ \E key \in BucketTargets, name \in Names, value \in AssignObjects :
          BucketSetAttr(key, name, value)
SpecAssign == Init /\ [][NextAssign]_vars

\* construction of Color Values and assignment to their fields
NextColor ==
    \/ \E c \in Colors : ColorNew(c)
    \/ \E field \in FieldNames : \E value \in FieldValues(field) :
          ColorSetAttr(field, value)
SpecColor == Init /\ [][NextColor]_vars

\* Color Values are constructed, converted, given another alpha and built
\* again from their dictionaries
NextConvert ==
    \/ \E c \in ConvColors : ColorNew(c)
    \/ \E alpha \in Alphas : ChangeAlpha(alpha)
    \/ \E color_space \in ColorSpaces : ToColorSpace(color_space)
    \/ \E cls \in ColorSpaces, color_space \in ColorSpaceArgs :
          ColorFromDict(cls, color_space)
SpecConvert == Init /\ [][NextConvert]_vars

\* Hex values are constructed and converted to RGB and back
NextHex ==
    \/ \E c \in HexColors : ColorNew(c)
    \/ \E color_space \in {"Hex", "RGB"} : ToColorSpace(color_space)
SpecHex == Init /\ [][NextHex]_vars

\* Color Values are constructed and added to each other and to a str
NextAdd ==
    \/ \E c \in AddColors : ColorNew(c)
    \/ \E other \in AddColors \cup {NonColor} : Add(other)
SpecAdd == Init /\ [][NextAdd]_vars

\* a camp is filled; dictionaries are made by to_dict and passed to from_dict
NextFromDict ==
    \/ \E color_objects \in DictLists : AddObjects(color_objects, FALSE)
    \/ \E obj \in DictObjects : ToDict(obj)
    \/ CampToDict
    \/ FromDict
SpecFromDict == Init /\ [][NextFromDict]_vars

\* Color Values are constructed and compared with each other
NextEquiv ==
    \/ \E c \in EquivColors : ColorNew(c)
    \/ \E other \in EquivColors : Equivalence(other)
SpecEquiv == Init /\ [][NextEquiv]_vars

\* the conversion functions are called
NextConversions ==
    \/ \E rgb_tuple \in RgbTuples : RgbToHex(rgb_tuple)
    \/ \E hex_str \in HexStrings : HexToRgb(hex_str)
SpecConversions == Init /\ [][NextConversions]_vars

\* a Palette is constructed and next() is called on it
NextPalette ==
    \/ \E colors \in MemberLists : PaletteNew(colors)
    \/ PaletteNext
SpecPalette == Init /\ [][NextPalette]_vars

\* a Scale is constructed, its stops are assigned to and it is built again
\* from its dictionary
NextScale ==
    \/ \E colors \in ScaleLists, stops \in StopLists : ScaleNew(colors, stops)
    \/ \E values \in StopLists : ScaleSetStops(values)
    \/ \E with_stops \in BOOLEAN : ScaleFromDict(with_stops)
SpecScale == Init /\ [][NextScale]_vars

\* a Palette or a Scale is constructed and reversed
NextReverse ==
    \/ \E colors \in MemberLists : PaletteNew(colors)
    \/ \E colors \in ScaleLists, stops \in StopLists : ScaleNew(colors, stops)
    \/ Reverse
SpecReverse == Init /\ [][NextReverse]_vars

\* a Color Value or a group is constructed and its info is changed
NextInfo ==
    \/ \E c \in InfoColors : ColorNew(c)
    \/ \E colors \in MemberLists : PaletteNew(colors)
    \/ \E colors \in ScaleLists : ScaleNew(colors, NoStops)
    \/ \E color_map \in MapInputs : MapNew(color_map)
    \/ \E kwargs \in InfoArgs : ColorChangeInfo(kwargs)
    \/ \E kwargs \in InfoArgs : GroupChangeInfo(kwargs)
SpecInfo == Init /\ [][NextInfo]_vars

\* a group is constructed and entries are put into a Map
NextMap ==
    \/ \E color_map \in MapInputs : MapNew(color_map)
    \/ \E colors \in MemberLists : PaletteNew(colors)
    \/ \E colors \in ScaleLists : ScaleNew(colors, NoStops)
    \/ \E key \in MapKeys, value \in GroupColors : MapSetItem(key, value)
    \/ \E key \in MapKeys, value \in GroupColors : MapUpdate(key, value)
    \/ \E key \in MapKeys, value \in GroupColors : MapSetDefault(key, value)
SpecMap == Init /\ [][NextMap]_vars

\* a Palette or a Scale is constructed and converted to the other groups
NextToType ==
    \/ \E colors \in MemberLists : PaletteNew(colors)
    \/ \E colors \in ScaleLists : ScaleNew(colors, NoStops)
    \/ \E names \in NameLists : ToMap(names)
    \/ \E stops \in StopLists : ToScale(stops)
    \/ ToPalette
SpecToType == Init /\ [][NextToType]_vars

(***************************************************************************)
(* What the claims speak of                                                *)
(***************************************************************************)
\* the objects a bucket holds, as to_dict() returns them
Stored(b) == DictDel(b, "_bucket_type")
StoredObjects(b) == {Stored(b)[i][2] : i \in 1..Len(Stored(b))}
\* the bucket has the class it was constructed with as its declared type
Intact(camp_, key) ==
    /\ DictHas(camp_[key], "_bucket_type")
    /\ DictGet(camp_[key], "_bucket_type") = directory_map[key]
AllIntact(camp_) == \A key \in BucketKeys : Intact(camp_, key)
\* every Color Value of a camp: the stored ones and the members of its groups
Range(seq) == {seq[i] : i \in 1..Len(seq)}
CampColors(camp_) ==
    StoredObjects(camp_.colors)
        \cup UNION {Range(colors_of(g)) :
                       g \in StoredObjects(camp_.palettes)
                              \cup StoredObjects(camp_.scales)
                              \cup StoredObjects(camp_.maps)}
\* the keys of the Maps of a camp
CampMapKeys(camp_) ==
    UNION {Range(DictKeys(g.color_map)) : g \in StoredObjects(camp_.maps)}
\* two camps hold, bucket by bucket, the same names and == objects
SameBucket(x, y) ==
    /\ Range(DictKeys(x)) = Range(DictKeys(y))
    /\ \A i \in 1..Len(x) : ObjectEq(x[i][2], DictGet(y, x[i][1]))
SameCamp(a, b) ==
    \A key \in BucketKeys : SameBucket(Stored(a[key]), Stored(b[key]))
\* the file the camp is saved to, and what save would write to it now
CampPath == JsonPath(Directory, CampName)
CampDocument == <<json_dump(camp_to_dict(camp).val)>>
\* this step is a load(name, dir), with no color_space given, of the camp
\* that the step before saved
LoadAfterSave ==
    /\ last.op = "Camp.save" /\ last.exc = ""
    /\ last'.op = "Camp.load" /\ last'.arg[1] = camp.name
    /\ last'.arg[3] = NoneStr

AllHexStrKeys(camp_) ==
    /\ \A c \in CampColors(camp_) : c.kind = "Hex"
    /\ \A k \in CampMapKeys(camp_) : k.t = "str"
SaveOnExisting ==
    /\ last'.op = "Camp.save" /\ last'.arg[2] = FALSE
    /\ DictHas(disk, CampPath)

C3_LoadColorSpace ==
    [][last'.op = "Camp.load" /\ last'.exc = "" /\ last'.arg[3] # NoneStr
          => \A c \in CampColors(last'.ret[1]) : c.kind = last'.arg[3]]_vars

(***************************************************************************)
(* C4  Bucket.add of an unnamed object and of a name in use                *)
(***************************************************************************)
\* this step is camp.<key>.add(item): the bucket before it and the item
AddStep == last'.op = "Bucket.add"
AddBucket == camp[last'.arg[1]]
AddItem == last'.arg[2]
\* an object is stored in the bucket under this name
IsStored(b, name) == DictHas(Stored(b), name)

\* C4: add(item) raises an attribute error when item.name is None and a
\* value error when an object is already stored under item.name; the
\* bucket is unchanged in both cases
C4_AddRejects ==
    [][AddStep /\ has_name(AddItem) =>
          /\ AddItem.name = NoneStr
                => last'.exc = "AttributeError" /\ camp' = camp
          /\ AddItem.name # NoneStr /\ IsStored(AddBucket, AddItem.name)
                => last'.exc = "ValueError" /\ camp' = camp]_vars

\* add of RgbA was refused with a value error while HexA is stored as "a"
C4_Witness ==
    /\ last.op = "Bucket.add" /\ last.arg = <<"colors", RgbA>>
    /\ last.exc = "ValueError"
    /\ IsStored(camp.colors, "a") /\ DictGet(camp.colors, "a") = HexA

(***************************************************************************)
(* C6  Bucket.add of an object of another type                             *)
(***************************************************************************)
\* this step adds an object that is no instance of the declared type of a
\* bucket that has its declared type
AddWrongType ==
    /\ AddStep /\ Intact(camp, last'.arg[1])
    /\ ~isinstance(AddItem, directory_map[last'.arg[1]])

\* C6 as stated: for every object that is not an instance of the bucket's
\* declared type add raises a type error and leaves the bucket unchanged
C6_WrongTypeIsTypeError ==
    [][AddWrongType => last'.exc = "TypeError" /\ camp' = camp]_vars

\* C6 amended: add of such an object always raises and leaves the bucket
\* unchanged; it raises a type error when the object has a name that is not
\* None and that is no attribute of the bucket yet, an attribute error when
\* it has no name, and a value error when the name is in use
C6_WrongTypeRaises ==
    [][AddWrongType =>
          /\ camp' = camp
          /\ last'.exc =
                IF ~has_name(AddItem) THEN "AttributeError"
                ELSE IF AddItem.name = NoneStr THEN "AttributeError"
                ELSE IF bucket_hasattr(AddBucket, AddItem.name) THEN "ValueError"
                ELSE "TypeError"]_vars

\* a Palette was refused by the colors bucket with a type error
C6_Witness ==
    /\ last.op = "Bucket.add" /\ last.arg = <<"colors", PaletteA>>
    /\ last.exc = "TypeError"
    /\ Intact(camp, "colors") /\ ~IsStored(camp.colors, "a")

(***************************************************************************)
(* C7  Bucket.remove                                                       *)
(***************************************************************************)
\* C7: remove(name) deletes the entry when an object is stored under the
\* name; for every name with no stored object it raises a key error and
\* leaves the bucket, its stored objects and its declared type, unchanged
C7_RemoveStoredOrKeyError ==
    [][last'.op = "Bucket.remove" =>
          IF IsStored(camp[last'.arg[1]], last'.arg[2])
          THEN /\ last'.exc = ""
               /\ camp' = [camp EXCEPT ![last'.arg[1]] = DictDel(@, last'.arg[2])]
          ELSE last'.exc = "KeyError" /\ camp' = camp]_vars

(***************************************************************************)
(* C8  add_objects and exists_ok                                           *)
(***************************************************************************)
\* this step is camp.add_objects(items, exists_ok)
AddObjectsStep == last'.op = "Camp.add_objects"
Items == last'.arg[1]
ExistsOk == last'.arg[2]
\* the item has a name and a class the camp has a bucket for, and the bucket
\* it belongs to
Routable(item) ==
    /\ has_name(item) /\ item.name # NoneStr
    /\ \E key \in BucketKeys : isinstance(item, directory_map[key])
KeyOf(item) == CHOOSE key \in BucketKeys : isinstance(item, directory_map[key])
\* item i meets its name in its bucket: stored there before the call, or
\* the name of an earlier item of the list for the same bucket
Collides(camp_, items, i) ==
    \/ IsStored(camp_[KeyOf(items[i])], items[i].name)
    \/ \E j \in 1..(i - 1) :
          KeyOf(items[j]) = KeyOf(items[i]) /\ items[j].name = items[i].name
\* after the call every name holds the object inserted first under it
KeptFirst(before, after, items) ==
    \A i \in 1..Len(items) :
        LET b == before[KeyOf(items[i])]
            a == after[KeyOf(items[i])]
            name == items[i].name
        IN  /\ IsStored(a, name)
            /\ DictGet(a, name) =
                  IF IsStored(b, name) THEN DictGet(b, name)
                  ELSE items[CHOOSE j \in 1..i :
                                /\ KeyOf(items[j]) = KeyOf(items[i])
                                /\ items[j].name = name
                                /\ ~Collides(before, items, j)]

\* C8: when an item of the list meets its name, add_objects with
\* exists_ok=True raises nothing and every name keeps the object inserted
\* first, and with exists_ok=False it raises a value error
C8_ExistsOk ==
    [][/\ AddObjectsStep /\ AllIntact(camp)
       /\ \A i \in 1..Len(Items) : Routable(Items[i])
       /\ \E i \in 1..Len(Items) : Collides(camp, Items, i)
       => IF ExistsOk
          THEN last'.exc = "" /\ KeptFirst(camp, camp', Items)
          ELSE last'.exc = "ValueError"]_vars

\* add_objects([HexA, RgbA], exists_ok=True) returned and "a" is HexA
C8_Witness ==
    /\ last.op = "Camp.add_objects" /\ last.arg = <<<<HexA, RgbA>>, TRUE>>
    /\ last.exc = ""
    /\ IsStored(camp.colors, "a") /\ DictGet(camp.colors, "a") = HexA

(***************************************************************************)
(* C9  add_objects routes by type                                          *)
(***************************************************************************)
\* every bucket holds only instances of the type it was constructed with
BucketTypes ==
    \A key \in BucketKeys :
        \A o \in StoredObjects(camp[key]) : isinstance(o, directory_map[key])
\* an object that add_objects stores is an item of the list and goes to the
\* bucket of its type; a list of named items of known types that raises
\* nothing leaves every item's name stored in the bucket of the item's type
Routing ==
    AddObjectsStep =>
      /\ \A key \in BucketKeys : \A i \in 1..Len(Stored(camp'[key])) :
            ~IsStored(camp[key], Stored(camp'[key])[i][1]) =>
                \E j \in 1..Len(Items) :
                    /\ Items[j] = Stored(camp'[key])[i][2]
                    /\ Routable(Items[j]) /\ KeyOf(Items[j]) = key
      /\ (/\ AllIntact(camp)
          /\ \A i \in 1..Len(Items) : Routable(Items[i])
          /\ ExistsOk \/ \A i \in 1..Len(Items) : ~Collides(camp, Items, i))
         => /\ last'.exc = ""
            /\ \A i \in 1..Len(Items) :
                  IsStored(camp'[KeyOf(Items[i])], Items[i].name)

\* C9: add_objects routes every named item to the bucket of its type and to
\* no other, and in every reachable state each bucket holds only objects of
\* its declared type
C9_RoutesByType == []BucketTypes /\ [][Routing]_vars

\* add_objects([ScaleB]) stored the Scale in scales and nowhere else
C9_Witness ==
    /\ last.op = "Camp.add_objects" /\ last.arg = <<<<ScaleB>>, FALSE>>
    /\ last.exc = ""
    /\ IsStored(camp.scales, "b") /\ DictGet(camp.scales, "b") = ScaleB
    /\ \A key \in BucketKeys \ {"scales"} : ~IsStored(camp[key], "b")

(***************************************************************************)
(* C5  Stored under its name; direct assignment                            *)
(***************************************************************************)
\* every stored object is stored under its name
KeyIsName ==
    \A key \in BucketKeys : \A i \in 1..Len(Stored(camp[key])) :
        Stored(camp[key])[i][2].name = Stored(camp[key])[i][1]
\* a direct assignment camp.<key>.<name> = obj, of an obj of the type the
\* bucket was constructed with and with obj.name # name, raises an attribute
\* error and stores nothing
MismatchRefused ==
    /\ last'.op = "Bucket.__setattr__"
    /\ isinstance(last'.arg[3], directory_map[last'.arg[1]])
    /\ last'.arg[3].name # last'.arg[2]
    => last'.exc = "AttributeError" /\ camp' = camp

\* C5: after any sequence of add, remove, add_objects and direct
\* assignments every stored object is under the key equal to its name, and
\* a direct assignment of an object under another key than its name raises
\* an attribute error and stores nothing
C5_KeyIsName == []KeyIsName /\ [][MismatchRefused]_vars

(***************************************************************************)
(* C10  Write-once fields of a Color Value                                 *)
(***************************************************************************)
\* C10: after construction an assignment to name, description, metadata,
\* alpha, fractional_rgb, hex, rgb or hsl raises an attribute error and
\* leaves every field unchanged
C10_WriteOnce ==
    [][last'.op = "Color.__setattr__" =>
          /\ last'.exc = "AttributeError"
          /\ Fields(color'[1]) = Fields(color[1])]_vars

(***************************************************************************)
(* C11  Palette.next                                                       *)
(***************************************************************************)
\* the palette at hand, when it has a color
HasPalette == group # <<>> /\ group[1].kind = "Palette" /\ Len(group[1].colors) > 0
\* the cursor of a non-empty palette of n colors is in 0..n-1
CursorInRange ==
    HasPalette => group[1].current_index \in 0..(Len(group[1].colors) - 1)
\* the call of next() made after calls earlier ones returns the color at
\* index calls mod n
NextReturnsKth ==
    HasPalette /\ last'.op = "Palette.next"
        => /\ last'.exc = ""
           /\ last'.ret = <<group[1].colors[(calls % Len(group[1].colors)) + 1]>>

\* C11: for a non-empty Palette of n colors the k-th call of next() since
\* construction (k = 0, 1, 2, ...) returns the color at index k mod n, and
\* the cursor always stays in 0..n-1
C11_NextCycles == []CursorInRange /\ [][NextReturnsKth]_vars

\* the fourth call of next() on a palette of three colors has returned the
\* first color again
C11_Witness ==
    /\ HasPalette /\ group[1].colors = <<HexA, HslB, RgbA>>
    /\ calls = 4 /\ last.op = "Palette.next" /\ last.ret = <<HexA>>
    /\ group[1].current_index = 1

(***************************************************************************)
(* C12, C13, C14  The stops of a Scale                                     *)
(***************************************************************************)
\* every Scale there is: the one at hand and the one the last call returned
Scales ==
    {g \in Range(group) \cup Range(last.ret) : g.kind = "Scale"}
\* this step constructs a Scale from Color Values with the stops supplied
ScaleWithStops ==
    /\ last'.op = "Scale" /\ last'.arg[2] # NoStops
    /\ \A i \in 1..Len(last'.arg[1]) : isinstance_BaseColor(last'.arg[1][i])
\* every stop of every Scale lies in [0, 1]
StopsInUnitInterval ==
    \A g \in Scales : \A i \in 1..Len(g.stops) : FractionIntervalValidator(g.stops[i])
\* a construction with a supplied stop outside [0, 1] fails
OutsideRefused ==
    /\ ScaleWithStops
    /\ \E i \in 1..Len(last'.arg[2]) : ~FractionIntervalValidator(last'.arg[2][i])
    => last'.exc # "" /\ group' = group

\* C12: every stop of every constructed Scale lies in [0,1]; constructing a
\* Scale with supplied stops that contain a value outside [0,1] fails and no
\* such Scale exists
C12_StopsInUnitInterval == []StopsInUnitInterval /\ [][OutsideRefused]_vars

\* C13: a Scale built from n colors with stops omitted has exactly n stops,
\* stop i equal to i/(n-1), and the last stop equal to 1
C13_DefaultStops ==
    [][last'.op = "Scale" /\ last'.arg[2] = NoStops /\ last'.exc = ""
          => LET n == Len(last'.arg[1])
                 stops == group'[1].stops
             IN  /\ Len(stops) = n
                 /\ n >= 1 => stops[n] = One
                 /\ n >= 2 => \A i \in 1..n : stops[i] = Rat(i - 1, n - 1)]_vars

\* the stops of every Scale are as many as its colors and non-decreasing
StopsMatchColors ==
    \A g \in Scales : Len(g.stops) = Len(g.colors) /\ IsSorted(g.stops)
\* a construction with supplied stops that are not as many as the colors or
\* not in ascending order raises a value error
BadStopsRefused ==
    /\ ScaleWithStops
    /\ \/ Len(last'.arg[2]) # Len(last'.arg[1])
       \/ ~IsSorted(last'.arg[2])
    => last'.exc = "ValueError"

\* C14: constructing a Scale with supplied stops of another length than the
\* colors, or not in ascending order, raises a value error; in every
\* constructed Scale, and after any later assignment to stops, len(stops)
\* equals the number of colors and stops is non-decreasing
C14_StopsMatchColors == []StopsMatchColors /\ [][BadStopsRefused]_vars

(***************************************************************************)
(* C15  The members of a group are Color Values                            *)
(***************************************************************************)
\* every member of the group at hand is a Color Value
MembersAreColors ==
    \A g \in Range(group) : \A c \in Range(colors_of(g)) : isinstance_BaseColor(c)
\* this step puts a value into the Map at hand: by item assignment, by
\* update, or by setdefault of a key the Map does not have
MapInsertion ==
    \/ last'.op \in {"Map.__setitem__", "Map.update"}
    \/ last'.op = "Map.setdefault" /\ ~DictHas(group[1].color_map, last'.arg[1])
\* this step constructs a group with a member that is no Color Value
NonColorMember ==
    \/ /\ last'.op \in {"Palette", "Scale"}
       /\ \E i \in 1..Len(last'.arg[1]) : ~isinstance_BaseColor(last'.arg[1][i])
    \/ /\ last'.op = "Map"
       /\ \E i \in 1..Len(last'.arg[1]) : ~isinstance_BaseColor(last'.arg[1][i][2])
\* an insertion of a value that is no Color Value, and a construction with
\* such a member, raise a type error and leave the group as it was
NonColorRefused ==
    \/ MapInsertion /\ ~isinstance_BaseColor(last'.arg[2])
    \/ NonColorMember
    => last'.exc = "TypeError" /\ group' = group

\* C15: every insertion into a Map (at construction, by m[k] = v, by update
\* or by setdefault) of a value that is not a Color Value raises a type
\* error, so all values of a Map are Color Values in every reachable state;
\* a Palette or Scale cannot be constructed with a non-Color member
C15_MembersAreColors == []MembersAreColors /\ [][NonColorRefused]_vars

(***************************************************************************)
(* C16  to_map of a Palette or Scale                                       *)
(***************************************************************************)
\* this step calls to_map on the Palette or Scale at hand
ToMapStep == last'.op = "ColorGroup.to_map" /\ group[1].kind \in {"Palette", "Scale"}
\* the keys of the call: the names supplied, or the names of the colors
ToMapKeys == map_names(colors_of(group[1]), last'.arg[1])
\* the keys are pairwise distinct and as many as the colors
DistinctKeys(keys, n) ==
    /\ Len(keys) = n
    /\ \A i, j \in 1..Len(keys) : keys[i] = keys[j] => i = j
\* the Map that pairs the i-th key with the i-th color and carries the
\* name, description and metadata of the source
Lossless(m, g, keys) ==
    /\ m.kind = "Map"
    /\ m.color_map = [i \in 1..Len(colors_of(g)) |-> <<keys[i], colors_of(g)[i]>>]
    /\ info(m) = info(g)

\* C16: g.to_map(names) on a Palette or Scale raises a value error unless
\* the keys are pairwise distinct and exactly as many as the colors; when it
\* succeeds the Map has one entry per source color, pairing the i-th key
\* with the i-th color, and carries the source's name, description and
\* metadata
C16_ToMapLossless ==
    [][ToMapStep =>
          IF DistinctKeys(ToMapKeys, Len(colors_of(group[1])))
          THEN last'.exc = "" => Lossless(last'.ret[1], group[1], ToMapKeys)
          ELSE last'.exc = "ValueError"]_vars

(***************************************************************************)
(* C17: for every Color Value c and every alpha a in [0, 1], 0 and the     *)
(* values below 16/255 included, c.change_alpha(a) returns a new Color     *)
(* Value of c's representation type whose alpha is a and whose color       *)
(* channels are c's, and leaves c unchanged; for a outside [0, 1] it       *)
(* fails.                                                                  *)
(***************************************************************************)
AlphaChanged == last.op = "change_alpha" /\ color # <<>>
InUnitInterval(a) == RLe(Zero, a) /\ RLe(a, One)
\* the color channels of the representation: the digits of a hex code
\* before its alpha, the tuple of an RGB or HSL value, the fractional RGB of
\* a BaseColor
Channels(c) ==
    IF c.kind = "Hex"
    THEN SubSeq(c.hex, 2, IF Len(c.hex) > 6 THEN 7 ELSE 4)
    ELSE IF c.kind = "BaseColor" THEN c.frgb ELSE c.tup
AlphaReplaced(c, a, r) ==
    /\ last.exc = ""
    /\ Len(r) = 1
    /\ r[1].kind = c.kind
    /\ r[1].alpha = a
    /\ Channels(r[1]) = Channels(c)
AlphaContract ==
    AlphaChanged =>
        IF InUnitInterval(last.arg[1])
        THEN AlphaReplaced(color[1], last.arg[1], last.ret)
        ELSE last.exc # ""
ReceiverKept == last'.op = "change_alpha" => color' = color
C17_ChangeAlpha == []AlphaContract /\ [][ReceiverKept]_vars

(***************************************************************************)
(* C18: conversion changes only the representation: every sequence of      *)
(* to_color_space calls on a Color Value c, with targets among BaseColor,  *)
(* Hex, RGB and HSL, succeeds, gives a value of the last target's type,    *)
(* and keeps exactly c's fractional RGB, alpha, name, description and      *)
(* metadata; hence converting back to c's type gives a value equivalent    *)
(* to c.                                                                   *)
(***************************************************************************)
Converted == last.op = "to_color_space" /\ color # <<>>
OnlyRepresentationChanged(c, r, color_space) ==
    /\ last.exc = ""
    /\ r.kind = color_space
    /\ r.frgb = c.frgb
    /\ r.alpha = c.alpha
    /\ r.name = c.name
    /\ r.description = c.description
    /\ r.metadata = c.metadata
    /\ r.kind = c.kind => equivalence(r, c)
C18_ConversionLossless ==
    Converted => OnlyRepresentationChanged(origin[1], color[1], last.arg[1])

(***************************************************************************)
(* C19: for every valid Hex value h without alpha, h.to_color_space("RGB") *)
(* is the RGB byte triple that h encodes, and converting that RGB value    *)
(* back with to_color_space("Hex") gives a value equal (==) to h, as for   *)
(* #FF15AA and (255, 21, 170).                                             *)
(***************************************************************************)
FromHex == origin # <<>> /\ origin[1].kind = "Hex" /\ origin[1].alpha = NoAlpha
\* the byte a pair of hex digits encodes, and the bytes a code of six or of
\* three digits encodes: a shorthand digit d stands for dd
Byte(hi, lo) == 16 * DigitValue(hi) + DigitValue(lo)
Encoded(h) ==
    IF Len(h) = 7
    THEN <<RInt(Byte(h[2], h[3])), RInt(Byte(h[4], h[5])), RInt(Byte(h[6], h[7]))>>
    ELSE <<RInt(Byte(h[2], h[2])), RInt(Byte(h[3], h[3])), RInt(Byte(h[4], h[4]))>>
\* the upper-case code of six digits that encodes the same bytes
SixDigits(h) ==
    IF Len(h) = 7 THEN Upper(h)
    ELSE Upper(<<HASH, h[2], h[2], h[3], h[3], h[4], h[4]>>)
HexToRGB ==
    FromHex /\ Converted /\ color[1].kind = "RGB" =>
        last.exc = "" /\ color[1].tup = Encoded(origin[1].hex)
BackToHex ==
    color # <<>> /\ color[1].kind = "RGB"
        /\ last'.op = "to_color_space" /\ last'.arg = <<"Hex">>
\* the statement as made: the Hex value that comes back equals h
C19_HexRoundTripEqual ==
    /\ []HexToRGB
    /\ [][FromHex /\ BackToHex =>
             last'.exc = "" /\ ColorEq(color'[1], origin[1])]_vars
\* the statement that holds: the Hex value that comes back is the upper-case
\* code of six digits for the bytes of h, equal to h when h has six digits
C19_HexRoundTrip ==
    /\ []HexToRGB
    /\ [][FromHex /\ BackToHex =>
             /\ last'.exc = ""
             /\ color'[1].kind = "Hex"
             /\ color'[1].hex = SixDigits(origin[1].hex)
             /\ Len(origin[1].hex) = 7 => ColorEq(color'[1], origin[1])]_vars
C19_Witness ==
    /\ FromHex /\ Converted
    /\ origin[1].hex = HexString1
    /\ last.arg = <<"Hex">> /\ last.exc = ""
    /\ color[1].kind = "Hex"
    /\ ColorEq(color[1], origin[1])

(***************************************************************************)
(* C20: from_dict called on BaseColor or on a subtype without a target     *)
(* representation returns a Color Value of the type named in the           *)
(* dictionary's "type" field: for every Color Value c, from_dict of        *)
(* c.to_dict() called on any color class returns a value of c's type that  *)
(* is equal (==) to c.                                                     *)
(***************************************************************************)
FromDictNoTarget ==
    last.op = "from_dict" /\ last.arg[2] = NoneStr /\ color # <<>>
StoredTypeRebuilt(c, r) ==
    /\ last.exc = ""
    /\ Len(r) = 1
    /\ r[1].kind = color_to_dict(c).type
    /\ ColorEq(r[1], c)
C20_FromDictStoredType ==
    FromDictNoTarget => StoredTypeRebuilt(color[1], last.ret)

(***************************************************************************)
(* C21: equivalence compares the fractional RGB channel by channel with    *)
(* the tolerance of the coarser of the two representations: 1/510 when     *)
(* either operand is a Hex or an RGB and about 1e-9 otherwise, a missing   *)
(* alpha on one side counting as 1; so a.equivalence(b) and                *)
(* b.equivalence(a) give the same answer for all Color Values a and b.     *)
(***************************************************************************)
Compared == last.op = "equivalence" /\ color # <<>>
Coarse(c) == c.kind \in {"Hex", "RGB"}
\* 0 <= y - x <= 1/n
AtMost(x, y, n) == RLe(x, y) /\ (x = y \/ n <= RFloor(RDiv(One, RSub(y, x))))
\* |x - y| <= 1/n for the channels of a and b, an absent alpha being 1
Within(a, b, n) ==
    \A i \in 1..4 :
        \/ AtMost(Filled(fractional_rgb(a), i), Filled(fractional_rgb(b), i), n)
        \/ AtMost(Filled(fractional_rgb(b), i), Filled(fractional_rgb(a), i), n)
CoarserTolerance(a, b) ==
    IF Coarse(a) \/ Coarse(b) THEN 510 ELSE 1000000000
C21_EquivalenceSymmetric ==
    Compared =>
        /\ last.ret[1] = Within(color[1], last.arg[1],
                                CoarserTolerance(color[1], last.arg[1]))
        /\ last.ret[1] = equivalence(last.arg[1], color[1])

(***************************************************************************)
(* C30: strict equality implies equivalence: for all Color Values a and b  *)
(* of any representation types, if a == b then a.equivalence(b) is true.   *)
(***************************************************************************)
ComparedEqual == Compared /\ ColorEq(color[1], last.arg[1])
C30_EqualImpliesEquivalent == ComparedEqual => last.ret[1]

(***************************************************************************)
(* C22: rgb_to_hex writes the three byte channels as two upper-case hex    *)
(* digits each after '#' and, when a fourth element alpha in [0, 1] is     *)
(* present, appends the two hex digits of round(alpha * 255), for every    *)
(* alpha (0.5 and k/255 for every byte k among them).                      *)
(***************************************************************************)
Formatted == last.op = "rgb_to_hex"
\* the two upper-case hex digits of a byte
TwoDigits(b) == <<b \div 16, b % 16>>
ThreeBytes(t) ==
    <<HASH>> \o TwoDigits(t[1][1]) \o TwoDigits(t[2][1]) \o TwoDigits(t[3][1])
RoundedAlpha(t) ==
    IF Len(t) = 4 THEN TwoDigits(PyRound(RMul(t[4], RInt(255)))) ELSE <<>>
C22_RgbToHexRounds ==
    Formatted =>
        last.ret[1] = ThreeBytes(last.arg[1]) \o RoundedAlpha(last.arg[1])

(***************************************************************************)
(* C23: hex_to_rgb accepts exactly the strings made of '#' followed by 3,  *)
(* 4, 6 or 8 hex digits and raises a value error for every other string    *)
(* (no '#', wrong length, a character that is no hex digit); a shorthand   *)
(* digit d stands for the byte dd, so "#abc" gives what "#aabbcc" gives    *)
(* and "#abcd" what "#aabbccdd" gives; the three color channels are        *)
(* integers in 0..255 and a fourth component is its byte / 255.            *)
(***************************************************************************)
Parsed == last.op = "hex_to_rgb"
WellFormed(s) ==
    /\ Len(s) - 1 \in {3, 4, 6, 8}
    /\ s[1] = HASH
    /\ \A i \in 2..Len(s) : s[i] \in 0..21
\* the string with every digit of a shorthand written twice
Doubled(s) ==
    IF Len(s) > 5 THEN s
    ELSE <<HASH>> \o [i \in 1..(2 * (Len(s) - 1)) |-> s[((i + 1) \div 2) + 1]]
\* the bytes of a string of six or eight digits, the fourth over 255
Components(s) ==
    [i \in 1..((Len(s) - 1) \div 2) |->
        IF i = 4 THEN Rat(Byte(s[2 * i], s[2 * i + 1]), 255)
        ELSE RInt(Byte(s[2 * i], s[2 * i + 1]))]
IsByte(x) == x[2] = 1 /\ x[1] \in 0..255
Parses(s, r) ==
    /\ last.exc = ""
    /\ r = Components(Doubled(s))
    /\ r = hex_to_rgb_validated(Doubled(s)).val
    /\ \A i \in 1..3 : IsByte(r[i])
    /\ Len(r) = 4 => RLe(Zero, r[4]) /\ RLe(r[4], One)
WasReversed == last.op = "reverse" /\ group # <<>>
InReverseOrder(g, r) ==
    /\ Len(r.colors) = Len(g.colors)
    /\ \A i \in 1..Len(g.colors) : r.colors[i] = g.colors[Len(g.colors) + 1 - i]
ReversedCopy(g, r) ==
    /\ last.exc = ""
    /\ Len(r) = 1
    /\ r[1].kind = g.kind
    /\ InReverseOrder(g, r[1])
    /\ r[1].name = g.name
    /\ r[1].description = g.description
    /\ r[1].metadata = g.metadata
    /\ g.kind = "Scale" => r[1].stops = g.stops
    /\ reverse(r[1]).ok
    /\ reverse(r[1]).val.colors = g.colors
C25_Reverse ==
    /\ [](WasReversed => ReversedCopy(group[1], last.ret))
    /\ [][last'.op = "reverse" => group' = group]_vars

(***************************************************************************)
(* C26: change_info(name=..., description=..., metadata=...) on a Color    *)
(* Value, Palette, Scale or Map returns a new object of the same class     *)
(* that differs from the original only in the info fields supplied: a      *)
(* color keeps its representation type and value, a group its member       *)
(* colors (each with its type and value), their order or keys, and its     *)
(* stops; the original object is unchanged.                                *)
(***************************************************************************)
InfoChanged == last.op \in {"change_info", "ColorGroup.change_info"}
Receiver == IF last.op = "change_info" THEN color[1] ELSE group[1]
\* the arguments are info fields, at least one, with a name that is valid
ValidInfo(kwargs) ==
    /\ kwargs # <<>>
    /\ \A i \in 1..Len(kwargs) : kwargs[i][1] \in {"name", "description", "metadata"}
    /\ DictHas(kwargs, "name") => DictGet(kwargs, "name") \notin BadNames
Supplied(kwargs, field, old) ==
    IF DictHas(kwargs, field) THEN DictGet(kwargs, field) ELSE old
WithInfo(obj, kwargs) ==
    [obj EXCEPT !.name = Supplied(kwargs, "name", @),
                !.description = Supplied(kwargs, "description", @),
                !.metadata = Supplied(kwargs, "metadata", @)]
OnlyInfoDiffers ==
    InfoChanged /\ ValidInfo(last.arg[1]) =>
        /\ last.exc = ""
        /\ last.ret = <<WithInfo(Receiver, last.arg[1])>>
C26_ChangeInfo ==
    /\ []OnlyInfoDiffers
    /\ [][last'.op \in {"change_info", "ColorGroup.change_info"} =>
             color' = color /\ group' = group]_vars

(***************************************************************************)
(* C24: for Color Values a and b, a + b is a Color Value of the class of   *)
(* a whose fractional RGB channels are the means (a_i + b_i) / 2, with no  *)
(* alpha, name, description or metadata whatever the alpha of a and b; if  *)
(* b is no Color Value a TypeError is raised.  The bytes of an RGB sum are *)
(* the rounded means: RGB (255, 0, 0) + RGB (0, 0, 255) is RGB (128, 0,    *)
(* 128).                                                                   *)
(***************************************************************************)
Added == last.op = "__add__" /\ color # <<>>
IsMean(m, x, y) == RAdd(m, m) = RAdd(x, y)
\* byte is a nearest integer of 255 * x
Nearest(byte, x) ==
    /\ byte[2] = 1
    /\ RLe(RSub(RMul(x, RInt(255)), Rat(1, 2)), byte)
    /\ RLe(byte, RAdd(RMul(x, RInt(255)), Rat(1, 2)))
IsSum(a, b, s) ==
    /\ s.kind = a.kind
    /\ Len(s.frgb) = 3
    /\ \A i \in 1..3 : IsMean(s.frgb[i], a.frgb[i], b.frgb[i])
    /\ s.alpha = NoAlpha
    /\ s.name = NoneStr
    /\ s.description = NoneStr
    /\ s.metadata = EmptyMeta
    /\ s.kind = "RGB" =>
           \A i \in 1..3 : Nearest(s.tup[i], RDiv(RAdd(a.frgb[i], b.frgb[i]), RInt(2)))
C24_Add ==
    Added =>
        IF last.arg[1].kind \in ColorSpaces
        THEN last.exc = "" /\ Len(last.ret) = 1
             /\ IsSum(color[1], last.arg[1], last.ret[1])
        ELSE last.exc = "TypeError" /\ last.ret = <<>>
\* RGB (255, 0, 0) with alpha 1/2 and a name plus RGB (0, 0, 255) was RGB
\* (128, 0, 128)
C24_Witness ==
    /\ Added
    /\ color[1] = RgbRedHalf
    /\ last.arg[1] = RgbBlue
    /\ last.ret # <<>>
    /\ last.ret[1].tup = <<RInt(128), RInt(0), RInt(128)>>
    /\ last.ret[1].alpha = NoAlpha

(***************************************************************************)
(* C27: for every valid name n, the names of a Bucket's own attributes     *)
(* (add, remove, names, to_dict, _bucket_type) included, adding an object  *)
(* of the bucket's type named n to a bucket that stores no object under n  *)
(* succeeds and the object is then retrievable under n; add raises         *)
(* ValueError only when an object was added under n and not removed.       *)
(***************************************************************************)
\* the bucket holds an object under n
HeldUnder(b, n) == DictHas(Stored(b), n)
\* the bucket has its declared type and the item is an instance of it
OfBucketType(b, item) ==
    /\ DictHas(b, "_bucket_type")
    /\ has_name(item)
    /\ isinstance(item, DictGet(b, "_bucket_type"))
AddedToBucket(key, item) == last'.op = "Bucket.add" /\ last'.arg = <<key, item>>
FreshNameAdded(key, item) ==
    AddedToBucket(key, item) /\ OfBucketType(camp[key], item)
        /\ item.name # NoneStr /\ ~HeldUnder(camp[key], item.name) =>
            /\ last'.exc = ""
            /\ HeldUnder(camp'[key], item.name)
            /\ DictGet(camp'[key], item.name) = item
RefusedOnlyInUse(key, item) ==
    AddedToBucket(key, item) /\ last'.exc = "ValueError" =>
        HeldUnder(camp[key], item.name)
C27_AddUnderOwnAttribute ==
    [][\A key \in BucketTargets, item \in BucketObjects :
           FreshNameAdded(key, item) /\ RefusedOnlyInUse(key, item)]_vars

(***************************************************************************)
(* C28: when add_objects(items, exists_ok=False) raises on an item (its    *)
(* name is in use, it has no name or no bucket takes its type), the camp   *)
(* holds exactly what it held before the call and the items that preceded  *)
(* the failing one; the items after it are not added and nothing is        *)
(* rolled back.                                                            *)
(***************************************************************************)
RaisedOnItem == AddObjectsStep /\ ~ExistsOk /\ last'.exc # ""
\* item i cannot be added: it has no name or no bucket for its class, its
\* bucket has lost its declared type, or its name is in use
Refused(camp_, items, i) ==
    \/ ~Routable(items[i])
    \/ ~Intact(camp_, KeyOf(items[i]))
    \/ Collides(camp_, items, i)
FirstRefused(camp_, items, k) ==
    Refused(camp_, items, k) /\ \A j \in 1..(k - 1) : ~Refused(camp_, items, j)
\* the items before item k that belong to the bucket
Preceding(items, k, key) ==
    {items[j] : j \in {i \in 1..(k - 1) : KeyOf(items[i]) = key}}
HoldsUpTo(before, after, items, k) ==
    \A key \in BucketKeys :
        /\ StoredObjects(after[key]) =
               StoredObjects(before[key]) \cup Preceding(items, k, key)
        /\ \A o \in StoredObjects(after[key]) : DictGet(after[key], o.name) = o
        /\ DictHas(after[key], "_bucket_type") = DictHas(before[key], "_bucket_type")
C28_AddObjectsPartial ==
    [][RaisedOnItem =>
           \E k \in 1..Len(Items) :
               FirstRefused(camp, Items, k) /\ HoldsUpTo(camp, camp', Items, k)]_vars
\* add_objects([HexA, HexNone]) raised on HexNone, which has no name, and
\* the camp holds HexA
C28_Witness ==
    /\ last.op = "Camp.add_objects" /\ last.arg = <<<<HexA, HexNone>>, FALSE>>
    /\ last.exc = "AttributeError"
    /\ Intact(camp, "colors")
    /\ IsStored(camp.colors, "a") /\ DictGet(camp.colors, "a") = HexA

(***************************************************************************)
(* C29: from_dict leaves its argument unchanged: after BaseColor.from_dict *)
(* (d), Palette.from_dict(d), Scale.from_dict(d), Map.from_dict(d) or      *)
(* Camp.from_dict(d) the dictionary d, its nested color dictionaries       *)
(* included, has the keys and values it had before, so that from_dict      *)
(* called twice on the same dictionary returns both times, and returns     *)
(* equal objects.                                                          *)
(***************************************************************************)
FromDictStep == last'.op = "cls.from_dict"
ArgumentKept == FromDictStep => passed' = passed
\* the step is a second call on the dictionary of a call that returned
SecondCall == FromDictStep /\ last.op = "cls.from_dict" /\ last.exc = ""
SameAgain == SecondCall => last'.exc = "" /\ last'.ret = last.ret
C29_FromDictKeepsArgument == [][ArgumentKept /\ SameAgain]_vars
====
